---- MODULE Spec2Model ----
(***************************************************************************)
(* Favorites store of nonebot-plugin-hitokoto-plus.                        *)
(*                                                                         *)
(* Two implementations of the favorites store live in the repository:      *)
(*   - the handlers of __init__.py, working on the module globals          *)
(*     user_favorites / last_sentences / pending_deletes and persisting    *)
(*     with save_favorites / load_favorites (temp file, backup, rename);   *)
(*   - FavoriteManager of models.py with the commands of                   *)
(*     handlers/favorites.py, working on _favorites / _last_hitokoto.      *)
(* Each is modelled from its own code, on its own variables.               *)
(*                                                                         *)
(* Specifications:                                                         *)
(*   Spec      the handlers of __init__.py, one action per handler call    *)
(*   SpecCrash save_favorites taken one file operation at a time, with     *)
(*             process termination and the next start-up's load            *)
(*   SpecMgr   FavoriteManager and the commands of handlers/favorites.py   *)
(***************************************************************************)
EXTENDS Integers, Sequences, FiniteSets, TLC

VARIABLES
    now,              \* time.time(), in seconds
    user_favorites,   \* __init__.py: dict user_id -> list of sentence dicts
    last_sentences,   \* __init__.py: dict user_id -> {sentence, timestamp}
    pending_deletes,  \* __init__.py: dict user_id -> {index, timestamp}
    disk,             \* data/favorites.json.tmp, favorites.json, favorites.json.bak
    ev,               \* the last handler call: command, user, message sent
    slot_added,       \* users whose current last_sentences entry was favorited
    save_pc,          \* position of the process inside save_favorites
    saving,           \* what the save in progress started from and writes
    mgr_favorites,    \* models.py: FavoriteManager._favorites
    mgr_last,         \* models.py: FavoriteManager._last_hitokoto
    mgr_file,         \* models.py: FavoriteManager.data_file (content)
    listing,          \* the page a list command showed, or the error it sent
    max_size,         \* cache.py: HitokotoCache.max_size
    type_cache,       \* cache.py: HitokotoCache.type_cache (LRUCache.cache each)
    recently_used,    \* cache.py: HitokotoCache.recently_used
    cache_file,       \* data/cache.json
    cache_ret,        \* the last cache call and what it returned
    surfaced,         \* get_random hits since the bucket was last changed
    stats,            \* cache.py: HitokotoCache.stats (hits, misses)
    cache_pc,         \* the process, seen from data/cache.json: up, saving, down
    warmup_running,   \* cache.py: HitokotoCache.warmup_running
    warm,             \* the warmup() coroutines: position, types, fetches issued
    last_allowed,     \* RateLimiter: key -> time of the last allowed check
    req,              \* the handle_hitokoto calls: position, what each did
    tasks,            \* the two periodic tasks and the driver's life cycle
    api_call,         \* api.py: the get_hitokoto call, its requests so far
    del_calls         \* the handle_delete_favorite calls that are running

vars == <<now, user_favorites, last_sentences, pending_deletes, disk, ev,
          slot_added, save_pc, saving, mgr_favorites, mgr_last, mgr_file,
          listing, max_size, type_cache, recently_used, cache_file, cache_ret,
          surfaced, stats, cache_pc, warmup_running, warm, last_allowed,
          req, tasks, api_call, del_calls>>

cache_vars == <<max_size, type_cache, recently_used, cache_file, cache_ret,
                surfaced, stats>>

\* what the favorites handlers other than the list commands leave alone
warm_vars == <<warmup_running, warm>>

\* the coroutines and tasks that run beside the handlers
\* the remote fetch and the delete handlers taken step by step
ext_vars == <<api_call, del_calls>>

run_vars == <<last_allowed, req, tasks, ext_vars>>

bg_vars == <<warm_vars, cache_pc, run_vars>>

aux_vars == <<listing, cache_vars, bg_vars>>

legacy_vars == <<user_favorites, last_sentences, pending_deletes, disk,
                 save_pc, saving>>

mgr_vars == <<mgr_favorites, mgr_last, mgr_file>>

(***************************************************************************)
(* Bounds and configuration                                                *)
(***************************************************************************)
\* sentence ids the remote source can deliver: 1..NumSentences
NumSentences == 3

\* config.py: max_favorites_per_user (a validated positive integer; the
\* shipped default is 100, the model runs with a small quota)
max_favorites_per_user == 2

\* config.py: favorite_timeout, shipped default
favorite_timeout == 60

\* __init__.py: DELETE_CONFIRM_TIMEOUT
DELETE_CONFIRM_TIMEOUT == 60

\* the clock runs to one second past a timeout
MaxTime == DELETE_CONFIRM_TIMEOUT + 1

\* user ids (str(event.user_id))
Users == {"u1", "u2"}

\* the users who request sentences; the other user works on the favorites
\* that were loaded at start-up
Requesters == {"u1"}

Sentences == [id : 1..NumSentences]

\* index arguments a command can carry (Args["index", int])
Indices == 0..(max_favorites_per_user + 1)

\* the clock advances by a whole timeout or by one second more, so that an
\* age can equal the timeout (not expired) or exceed it by one (expired)
Deltas == {DELETE_CONFIRM_TIMEOUT, DELETE_CONFIRM_TIMEOUT + 1}

(***************************************************************************)
(* Python dicts and lists                                                  *)
(***************************************************************************)
EmptyDict == [k \in {} |-> 0]

\* d[k] = v
Put(d, k, v) == [x \in (DOMAIN d) \cup {k} |-> IF x = k THEN v ELSE d[x]]

\* del d[k]
Del(d, k) == [x \in (DOMAIN d) \ {k} |-> d[x]]

\* list.pop(i) with a 0-based i inside the list: the list that remains
Pop(list, i) == SubSeq(list, 1, i) \o SubSeq(list, i + 2, Len(list))

\* list[i] with a 0-based i
At(list, i) == list[i + 1]

NoSentence == [id |-> 0]

(***************************************************************************)
(* Files                                                                   *)
(***************************************************************************)
\* A file is absent, present but not loadable by json.load, or holds the
\* JSON text of a favorites dict.  json.dump followed by json.load returns
\* an equal dict: the keys are str and the values are lists of dicts of
\* JSON types.
Absent == [st |-> "absent", data |-> EmptyDict]

Partial == [st |-> "partial", data |-> EmptyDict]

Json(m) == [st |-> "json", data |-> m]

\* os.path.exists(path)
Exists(f) == f.st # "absent"

\* json.load(f) returns without raising
Readable(f) == f.st = "json"

EmptyDisk == [tmp |-> Absent, live |-> Absent, bak |-> Absent]

\* open(temp_file_path, "w"): the temp file exists and is empty
OpenTemp(d) == [d EXCEPT !.tmp = Partial]

\* json.dump(user_favorites, f) completed and the file closed
DumpTemp(d, m) == [d EXCEPT !.tmp = Json(m)]

\* if os.path.exists(file_path): os.replace(file_path, backup_file_path)
BackupLive(d) ==
    IF Exists(d.live) THEN [d EXCEPT !.bak = d.live, !.live = Absent] ELSE d

\* os.replace(temp_file_path, file_path)
PromoteTemp(d) == [d EXCEPT !.live = d.tmp, !.tmp = Absent]

\* if os.path.exists(backup_file_path): os.remove(backup_file_path)
DeleteBackup(d) == [d EXCEPT !.bak = Absent]

\* save_favorites with no exception raised: the four steps in order
save_favorites_temp_only(d, m) == DumpTemp(OpenTemp(d), m)

save_favorites(d, m) ==
    DeleteBackup(PromoteTemp(BackupLive(DumpTemp(OpenTemp(d), m))))

\* load_favorites: the dict it leaves in user_favorites and the files it
\* leaves on disk.  The backup is looked at only inside the except branch
\* of a main file that exists and fails to load.
load_favorites(d) ==
    IF Exists(d.live)
    THEN IF Readable(d.live)
         THEN [favs |-> d.live.data, disk |-> d, from |-> "live"]
         ELSE IF Exists(d.bak) /\ Readable(d.bak)
              THEN [favs |-> d.bak.data,
                    disk |-> [d EXCEPT !.live = d.bak, !.bak = Absent],
                    from |-> "bak"]
              ELSE [favs |-> EmptyDict, disk |-> d, from |-> "empty"]
    ELSE [favs |-> EmptyDict, disk |-> d, from |-> "empty"]

(***************************************************************************)
(* The handlers of __init__.py                                             *)
(***************************************************************************)
\* The last handler call: the command, its user, the message it sent, the
\* branch of the handler that sent it, and whether the call before it was
\* the same user's delete request that replaced a pending entry.
Event(op, user, reply, path) ==
    [op |-> op, user |-> user, reply |-> reply, path |-> path,
     after_replace |-> ev.op = "delete" /\ ev.path = "replaced" /\ ev.user = user]

\* time.time() - pending_deletes[user_id]["timestamp"] > DELETE_CONFIRM_TIMEOUT
PendingExpiredNever(p, t) == FALSE

PendingExpired(p, t) == t - p.timestamp > DELETE_CONFIRM_TIMEOUT

\* pending_deletes[user_id] = {"index": index, "timestamp": time.time()}
SetPendingKeepTime(pd, u, index, t) ==
    Put(pd, u, [index |-> index,
                timestamp |-> IF u \in DOMAIN pd THEN pd[u].timestamp ELSE t])

SetPending(pd, u, index, t) == Put(pd, u, [index |-> index, timestamp |-> t])

\* removed = favorites.pop(index - 1)
PopFavoriteOffByOne(favorites, index) == Pop(favorites, index)

PopFavorite(favorites, index) == Pop(favorites, index - 1)

\* index <= 0 or index > len(favorites)
InvalidIndex(favorites, index) == index <= 0 \/ index > Len(favorites)

\* the early returns of handle_delete_favorite: a message and nothing else
RejectDeleteClearingPending(uf, pd, u, reply) ==
    [reply |-> reply, path |-> reply, favs |-> uf, pending |-> Del(pd, u),
     shown |-> NoSentence]

RejectDelete(uf, pd, u, reply) ==
    [reply |-> reply, path |-> reply, favs |-> uf, pending |-> pd,
     shown |-> NoSentence]

\* handle_delete_favorite(user_id, index) called at time t: the message sent
\* (and the sentence it quotes), user_favorites and pending_deletes afterwards
DeleteOutcome(uf, pd, u, index, t) ==
    IF u \notin DOMAIN uf \/ uf[u] = <<>>
    THEN RejectDelete(uf, pd, u, "no_favorites")
    ELSE LET favorites == uf[u] IN
      IF InvalidIndex(favorites, index)
      THEN RejectDelete(uf, pd, u, "invalid_index")
      ELSE IF u \in DOMAIN pd /\ ~PendingExpired(pd[u], t)
           THEN IF pd[u].index = index
                THEN [reply |-> "deleted", path |-> "confirmed",
                      favs |-> Put(uf, u, PopFavorite(favorites, index)),
                      pending |-> Del(pd, u),
                      shown |-> At(favorites, index - 1)]
                ELSE [reply |-> "confirm", path |-> "replaced",
                      favs |-> uf,
                      pending |-> SetPending(pd, u, index, t),
                      shown |-> At(favorites, index - 1)]
           \* no entry, or an expired one deleted first: a new entry
           ELSE [reply |-> "confirm",
                 path |-> IF u \in DOMAIN pd THEN "expired" ELSE "first",
                 favs |-> uf,
                 pending |-> SetPending(Del(pd, u), u, index, t),
                 shown |-> At(favorites, index - 1)]

\* for fav in user_favorites[user_id]: fav.get("id") == sentence.get("id")
AlreadyFavoritedLastOnly(favorites, sentence) ==
    favorites # <<>> /\ favorites[Len(favorites)].id = sentence.id

AlreadyFavorited(favorites, sentence) ==
    \E i \in 1..Len(favorites) : favorites[i].id = sentence.id

\* len(user_favorites[user_id]) >= hitokoto_config.max_favorites_per_user
QuotaReached(favorites) == Len(favorites) >= max_favorites_per_user

\* time_diff > hitokoto_config.favorite_timeout
FavoriteTimedOut(last_data, t) == t - last_data.timestamp > favorite_timeout

\* handle_add_favorite(user_id) called at time t: the message sent,
\* user_favorites afterwards, and whether save_favorites is called.
\* last_sentences entries always carry "timestamp" (handle_hitokoto writes
\* it), so the "timestamp" not in last_data branch is never taken.
AddOutcome_prepending(uf, ls, u, t) ==
    IF u \notin DOMAIN ls
    THEN [reply |-> "no_sentence", favs |-> uf, saved |-> FALSE]
    ELSE LET last_data == ls[u] IN
      IF FavoriteTimedOut(last_data, t)
      THEN [reply |-> "timeout", favs |-> uf, saved |-> FALSE]
      ELSE LET sentence == last_data.sentence
               uf1 == IF u \in DOMAIN uf THEN uf ELSE Put(uf, u, <<>>)
           IN IF AlreadyFavorited(uf1[u], sentence)
              THEN [reply |-> "already", favs |-> uf1, saved |-> FALSE]
              ELSE IF QuotaReached(uf1[u])
                   THEN [reply |-> "quota", favs |-> uf1, saved |-> FALSE]
                   ELSE [reply |-> "added",
                         favs |-> Put(uf1, u, <<sentence>> \o uf1[u]),
                         saved |-> TRUE]

AddOutcome(uf, ls, u, t) ==
    IF u \notin DOMAIN ls
    THEN [reply |-> "no_sentence", favs |-> uf, saved |-> FALSE]
    ELSE LET last_data == ls[u] IN
      IF FavoriteTimedOut(last_data, t)
      THEN [reply |-> "timeout", favs |-> uf, saved |-> FALSE]
      ELSE LET sentence == last_data.sentence
               uf1 == IF u \in DOMAIN uf THEN uf ELSE Put(uf, u, <<>>)
           IN IF AlreadyFavorited(uf1[u], sentence)
              THEN [reply |-> "already", favs |-> uf1, saved |-> FALSE]
              ELSE IF QuotaReached(uf1[u])
                   THEN [reply |-> "quota", favs |-> uf1, saved |-> FALSE]
                   ELSE [reply |-> "added",
                         favs |-> Put(uf1, u, Append(uf1[u], sentence)),
                         saved |-> TRUE]

(***************************************************************************)
(* The list commands                                                       *)
(***************************************************************************)
\* config.py: favorites_per_page (shipped default 5; handlers/favorites.py
\* reads its page size from the setting hitokoto_favorite_list_limit)
favorites_per_page == 2

\* page arguments a list command can carry
PageArgs == 0..(max_favorites_per_user + 1)

\* nothing was listed yet
NoListing == [reply |-> "", page |-> 0, total_pages |-> 0, items |-> <<>>]

\* favorites[start_idx:end_idx] of the page, each record with the number
\* enumerate(..., start_idx + 1) gives it
PageItems(favorites, page, per_page) ==
    LET start_idx == (page - 1) * per_page
        end_idx == IF start_idx + per_page < Len(favorites)
                   THEN start_idx + per_page ELSE Len(favorites)
    IN [k \in 1..(end_idx - start_idx) |->
           [no |-> start_idx + k, fav |-> favorites[start_idx + k]]]

\* handle_list_favorites(user_id, page) of __init__.py; given = FALSE is
\* page = None
ListOutcome(uf, u, given, page) ==
    IF u \notin DOMAIN uf \/ uf[u] = <<>>
    THEN [NoListing EXCEPT !.reply = "no_favorites"]
    ELSE LET favorites == uf[u]
             per_page == favorites_per_page
             total_pages == (Len(favorites) + per_page - 1) \div per_page
         IN IF given /\ (page <= 0 \/ page > total_pages)
            THEN [reply |-> "invalid_page", page |-> page,
                  total_pages |-> total_pages, items |-> <<>>]
            ELSE LET p == IF given THEN page ELSE 1
                 IN [reply |-> "page", page |-> p, total_pages |-> total_pages,
                     items |-> PageItems(favorites, p, per_page)]

\* math.ceil(len(favorites) / page_size)
CeilDiv(n, d) == (n + d - 1) \div d

\* handle_favorite_list of handlers/favorites.py after the permission check:
\* the page is brought into 1..total_pages before the slice is taken
MgrListOutcome(favorites, given, page_arg) ==
    LET page1 == IF given THEN (IF page_arg > 1 THEN page_arg ELSE 1) ELSE 1
        page_size == favorites_per_page
        pages == CeilDiv(Len(favorites), page_size)
        total_pages == IF pages > 1 THEN pages ELSE 1
        page == IF page1 < total_pages THEN page1 ELSE total_pages
    IN IF favorites = <<>>
       THEN [NoListing EXCEPT !.reply = "no_favorites"]
       ELSE [reply |-> "page", page |-> page, total_pages |-> total_pages,
             items |-> PageItems(favorites, page, page_size)]

(***************************************************************************)
(* HitokotoCache and LRUCache (cache.py)                                   *)
(***************************************************************************)
\* the largest max_size a HitokotoCache of SpecCache is built with; the class
\* takes every positive max_size and its LRU logic does not depend on it
CacheSize == 2

\* config.py: cache_ttl, shipped default (and the default of HitokotoCache)
cache_ttl == 3600

\* cache.py, get_random: min(self.max_size // 2, 20)
RecentCap == 20

\* cache.py, get_random: list(self.recently_used[type_key])[-10:]
RecentKeep == 10

\* sentence ids of the cached type: one more than the largest max_size
CacheIds == 1..(CacheSize + 1)

\* HitokotoSentence objects handed to add: id and type
CacheSentences == [id : CacheIds, type : {"a"}]

\* sentence_type arguments; "" stands for None (both are falsy)
TypeArgs == {"", "a"}

\* the clock of SpecCache advances to one second before the TTL or to the TTL
CacheDeltas == {cache_ttl - 1, cache_ttl}

\* cache_item = {"data": sentence.dict(), "timestamp": time.time()}, stored
\* under the key str(sentence.id)
CacheItem(id, t) == [id |-> id, timestamp |-> t]

\* the position of key in an OrderedDict (0 when absent)
KeyIndex(cache, key) ==
    IF \E i \in 1..Len(cache) : cache[i].id = key
    THEN CHOOSE i \in 1..Len(cache) : cache[i].id = key
    ELSE 0

\* LRUCache.put: move_to_end(key) when present, cache[key] = value, and
\* popitem(last=False) when the length exceeds the capacity
lru_put_in_place(cache, capacity, key, value) ==
    LET i == KeyIndex(cache, key)
        stored == IF i > 0 THEN [cache EXCEPT ![i] = value]
                  ELSE Append(cache, value)
    IN IF Len(stored) > capacity THEN Tail(stored) ELSE stored

lru_put(cache, capacity, key, value) ==
    LET i == KeyIndex(cache, key)
        stored == IF i > 0 THEN Append(Pop(cache, i - 1), value)
                  ELSE Append(cache, value)
    IN IF Len(stored) > capacity THEN Tail(stored) ELSE stored

\* type_key = sentence_type or sentence.type or "default"
AddTypeKey(sentence, sentence_type) ==
    IF sentence_type # "" THEN sentence_type
    ELSE IF sentence.type # "" THEN sentence.type ELSE "default"

\* HitokotoCache.add: type_cache and recently_used afterwards
cache_add(tc, ru, capacity, sentence, sentence_type, t) ==
    LET type_key == AddTypeKey(sentence, sentence_type)
        fresh == type_key \notin DOMAIN tc
        tc1 == IF fresh THEN Put(tc, type_key, <<>>) ELSE tc
        ru1 == IF fresh THEN Put(ru, type_key, {}) ELSE ru
    IN [type_cache |-> Put(tc1, type_key,
                           lru_put(tc1[type_key], capacity, sentence.id,
                                   CacheItem(sentence.id, t))),
        recently_used |-> ru1]

\* type_key = sentence_type or "default"
GetTypeKey(sentence_type) ==
    IF sentence_type # "" THEN sentence_type ELSE "default"

\* current_time - item["timestamp"] < self.ttl
NotExpired_through_ttl(item, t) == t - item.timestamp <= cache_ttl

NotExpired(item, t) == t - item.timestamp < cache_ttl

\* valid_sentences, as the ids of the items
ValidIds(cache, t) ==
    {cache[i].id : i \in {k \in 1..Len(cache) : NotExpired(cache[k], t)}}

\* unused_sentences, as ids
UnusedIds_ignoring_used(valid, used) == valid

UnusedIds(valid, used) == valid \ used

\* min(self.max_size // 2, 20)
RecentLimit(capacity) ==
    IF capacity \div 2 < RecentCap THEN capacity \div 2 ELSE RecentCap

\* set(list(recently_used)[-10:]) when the set is larger than the limit: the
\* iteration order of a set of str is not fixed, so any RecentKeep members
\* can be the ones kept
TrimChoices(used, capacity) ==
    IF Cardinality(used) > RecentLimit(capacity)
    THEN IF Cardinality(used) <= RecentKeep
         THEN {used}
         ELSE {kept \in SUBSET used : Cardinality(kept) = RecentKeep}
    ELSE {used}

\* HitokotoCache.cleanup: expired items are deleted, then empty buckets and
\* their recently_used sets
KeepValid_through_ttl(cache, t) ==
    SelectSeq(cache, LAMBDA item : t - item.timestamp <= cache_ttl)

KeepValid(cache, t) == SelectSeq(cache, LAMBDA item : NotExpired(item, t))

cache_cleanup(tc, ru, t) ==
    LET kept == {k \in DOMAIN tc : KeepValid(tc[k], t) # <<>>}
        gone == DOMAIN tc \ kept
    IN [type_cache |-> [k \in kept |-> KeepValid(tc[k], t)],
        recently_used |-> [k \in DOMAIN ru \ gone |-> ru[k]]]

\* the number of expired_keys cleanup deletes, all buckets together
RECURSIVE SumOver(_, _)
SumOver(f, keys) ==
    IF keys = {} THEN 0
    ELSE LET k == CHOOSE x \in keys : TRUE IN f[k] + SumOver(f, keys \ {k})

ExpiredCount(tc, t) ==
    SumOver([k \in DOMAIN tc |-> Len(tc[k]) - Len(KeepValid(tc[k], t))],
            DOMAIN tc)

\* no cache call was made yet
NoCall == [op |-> "", type_key |-> "", id |-> 0, reset |-> FALSE,
           removed |-> 0]

\* stats["hits"] and stats["misses"], counted up to StatsCap (StatsCap
\* stands for every larger number); last_cleanup is not followed
StatsCap == 1

NoStats == [hits |-> 0, misses |-> 0]

CountUp(n) == IF n < StatsCap THEN n + 1 ELSE n

\* data/cache.json: st is absent, json (written by save_to_file), partial
\* (json.load raises) or malformed (json.load returns, but a bucket record
\* lacks its "recently_used" key)
NoSnapshot ==
    [type_cache |-> EmptyDict, recently_used |-> EmptyDict, stats |-> NoStats]

CacheAbsent == [st |-> "absent", data |-> NoSnapshot]

\* the get_random hits counted since the bucket last changed, and whether
\* recently_used was cleared or lost members in one of them
NoSurfaced == [n |-> 0, cleared |-> FALSE, trimmed |-> FALSE]

\* the two callers of warmup() the model follows
Warmers == {"w1", "w2"}

\* a warmup() coroutine that was not called.  pc is its position; while it
\* runs, types is the list it was given and issued the fetches issued so far
\* for each entry of the list it has reached
NoWarmup == [pc |-> "idle", types |-> <<>>, issued |-> <<>>]

(***************************************************************************)
(* RateLimiter (rate_limiter.py) and the events handle_hitokoto receives   *)
(***************************************************************************)
\* config.py: rate_limit_private, rate_limit_group, shipped defaults
rate_limit_private == 5

rate_limit_group == 10

\* the events of the model: the same user id on two platforms in a private
\* chat, and in a group.  group_id "" is an event without group_id
Callers ==
    { [platform |-> "p1", user_id |-> "u1", group_id |-> ""],
      [platform |-> "p2", user_id |-> "u1", group_id |-> ""],
      [platform |-> "p1", user_id |-> "u1", group_id |-> "g1"] }

\* is_group = hasattr(event, "group_id") and event.group_id is not None
is_group(event) == event.group_id # ""

\* the key of a user's window and of a (group, user) window: the two scopes
\* are tracked independently
UserKey(user_id) == "user:" \o user_id

GroupKey(group_id, user_id) == "group:" \o group_id \o ":" \o user_id

\* RateLimiter.check(scopeKey, cooldownSeconds) at time t: allowed iff the key
\* was never allowed or t - last-allowed >= cooldown; on allow last-allowed
\* is reset to t; a denied check returns the time that remains
check(windows, key, cooldown, t) ==
    LET allowed == key \notin DOMAIN windows \/ t - windows[key] >= cooldown IN
    [allowed |-> allowed,
     remaining |-> IF allowed THEN 0 ELSE cooldown - (t - windows[key]),
     windows |-> IF allowed THEN Put(windows, key, t) ELSE windows]

\* rate_limiter.check_user(user_id, cooldown)
check_user(windows, user_id, cooldown, t) ==
    check(windows, UserKey(user_id), cooldown, t)

\* rate_limiter.check_group(group_id, user_id, cooldown)
check_group(windows, group_id, user_id, cooldown, t) ==
    check(windows, GroupKey(group_id, user_id), cooldown, t)

\* No handle_hitokoto call yet.  fetching maps the events whose call waits
\* for api.get_hitokoto to the call's sentence_type and the time of its
\* rate limit check; the other fields tell
\* of the handler step taken last: its event, the message it sent, the time
\* a cooldown message named, and the work the step did
NoRequest ==
    [fetching |-> EmptyDict,
     event |-> [platform |-> "", user_id |-> "", group_id |-> ""],
     reply |-> "", remaining |-> 0, did |-> {}]

\* no get_hitokoto call was made.  While a call runs pc is "request" (the
\* call awaits self.client.get) or "sleep" (it awaits the retry delay);
\* retry is the loop variable, got the responses to the requests sent so
\* far, waited the seconds slept, outcome what the call returned or raised
NoApiCall ==
    [pc |-> "idle", sentence_type |-> "", retry |-> 0, got |-> <<>>,
     waited |-> 0, outcome |-> ""]

\* the handle_delete_favorite coroutines that can run side by side
DeleteHandlers == {"h1", "h2"}

\* a handle_delete_favorite call that is not running.  pc is "save" while
\* the call is at await save_favorites() of the confirming branch and
\* "send" while it awaits the send of its message; before is the length of
\* the user's list when the call began
NoDelete == [pc |-> "idle", user |-> "", index |-> 0, before |-> 0]

\* on_startup has created both periodic tasks, the driver runs
TasksStarted ==
    [cleanup |-> "started", autosave |-> "started", driver |-> "running"]

InitBackground ==
    /\ cache_pc = "up"
    /\ warmup_running = FALSE
    /\ warm = [w \in Warmers |-> NoWarmup]
    /\ last_allowed = EmptyDict
    /\ req = NoRequest
    /\ tasks = TasksStarted
    /\ api_call = NoApiCall
    /\ del_calls = [h \in DeleteHandlers |-> NoDelete]

\* HitokotoCache(max_size, ttl) as __init__.py builds it at import
InitCache ==
    /\ max_size = CacheSize
    /\ type_cache = EmptyDict
    /\ recently_used = EmptyDict
    /\ cache_file = CacheAbsent
    /\ cache_ret = NoCall
    /\ surfaced = NoSurfaced
    /\ stats = NoStats

(***************************************************************************)
(* Spec: one action per handler call.  A handler runs without suspension   *)
(* up to the message it sends at its end (save_favorites contains no       *)
(* await that suspends), so each call is one step.                         *)
(***************************************************************************)
\* What is remembered of the last save_favorites call: the dict a load would
\* have returned when the save began (old), the dict being saved (new),
\* whether the process was terminated after the save began (crashed), and
\* whether the live file was damaged from outside since (faulted).
NoSave ==
    [old |-> EmptyDict, new |-> EmptyDict, started |-> FALSE,
     crashed |-> FALSE, faulted |-> FALSE, live |-> Absent]

\* data/favorites.json as an earlier run left it: one favorite of u2
Preloaded == [u \in {"u2"} |-> <<[id |-> 1]>>]

\* The state when on_startup has returned: load_favorites has read the
\* live file, nothing was requested yet.
\* the favorites side after on_startup
InitFavorites ==
    /\ user_favorites = Preloaded
    /\ last_sentences = EmptyDict
    /\ pending_deletes = EmptyDict
    /\ disk = [EmptyDisk EXCEPT !.live = Json(Preloaded)]
    /\ ev = [op |-> "startup", user |-> "", reply |-> "", path |-> "",
             after_replace |-> FALSE]
    /\ slot_added = {}
    /\ save_pc = "idle"
    /\ saving = NoSave
    /\ mgr_favorites = EmptyDict
    /\ mgr_last = EmptyDict
    /\ mgr_file = Absent
    /\ listing = NoListing

Init ==
    /\ now = 0
    /\ InitFavorites
    /\ InitCache
    /\ InitBackground

\* time passes between two handler calls
Tick ==
    /\ \E d \in Deltas :
          /\ now + d <= MaxTime
          /\ now' = now + d
    /\ UNCHANGED <<legacy_vars, ev, slot_added, mgr_vars, aux_vars>>

\* handle_hitokoto, a request that is served sentence s (from the cache or
\* from the API): last_sentences[user_id] = {sentence, timestamp}.  A request
\* that is rejected or whose fetch raises leaves the three dicts as they are.
handle_hitokoto(u, s) ==
    /\ save_pc = "idle"
    /\ last_sentences' = Put(last_sentences, u, [sentence |-> s, timestamp |-> now])
    /\ ev' = Event("hitokoto", u, "served", "served")
    /\ slot_added' = slot_added \ {u}
    /\ UNCHANGED <<now, user_favorites, pending_deletes, disk, save_pc, saving,
                   mgr_vars, aux_vars>>

\* handle_add_favorite(user_id), save_favorites included
handle_add_favorite(u) ==
    /\ save_pc = "idle"
    /\ LET r == AddOutcome(user_favorites, last_sentences, u, now) IN
         /\ user_favorites' = r.favs
         /\ disk' = IF r.saved THEN save_favorites(disk, r.favs) ELSE disk
         /\ ev' = Event("add", u, r.reply, r.reply)
         /\ slot_added' = IF r.reply = "added" THEN slot_added \cup {u}
                          ELSE slot_added
    /\ UNCHANGED <<now, last_sentences, pending_deletes, save_pc, saving, mgr_vars, aux_vars>>

\* handle_delete_favorite(user_id, index), save_favorites included
handle_delete_favorite(u, index) ==
    /\ save_pc = "idle"
    /\ LET r == DeleteOutcome(user_favorites, pending_deletes, u, index, now) IN
         /\ user_favorites' = r.favs
         /\ pending_deletes' = r.pending
         /\ disk' = IF r.reply = "deleted"
                    THEN save_favorites(disk, r.favs) ELSE disk
         /\ ev' = Event("delete", u, r.reply, r.path)
    /\ UNCHANGED <<now, last_sentences, slot_added, save_pc, saving, mgr_vars, aux_vars>>

Next ==
    \/ Tick
    \/ \E u \in Requesters, s \in Sentences : handle_hitokoto(u, s)
    \/ \E u \in Users : handle_add_favorite(u)
    \/ \E u \in Users, index \in Indices : handle_delete_favorite(u, index)

Spec == Init /\ [][Next]_vars

(***************************************************************************)
(* Properties of the delete confirmation of __init__.py (Spec)             *)
(***************************************************************************)
\* the favorites list of u, empty when u has no entry
FavoritesOf(uf, u) == IF u \in DOMAIN uf THEN uf[u] ELSE <<>>

\* u has a pending entry for index whose age at time t is within the timeout
ConfirmablePending(pd, u, index, t) ==
    /\ u \in DOMAIN pd
    /\ pd[u].index = index
    /\ t - pd[u].timestamp <= DELETE_CONFIRM_TIMEOUT

\* the step is a call of handle_delete_favorite for u; every
\* handle_delete_favorite(u, index) step is one, and the properties test this
\* first
DeleteCallOf(u) == ev'.op = "delete" /\ ev'.user = u

\* the step is a call of handle_add_favorite for u
AddCallOf(u) == ev'.op = "add" /\ ev'.user = u

\* C3: a delete request changes the favorites only if the same user has a
\* pending entry for the same index whose age is within the confirmation
\* timeout; a first request, a request after the entry expired and a request
\* for another index remove nothing.
C3_RemovalOnlyOnConfirmation ==
    [][\A u \in Users, index \in Indices :
         (/\ DeleteCallOf(u)
          /\ user_favorites' # user_favorites
          /\ handle_delete_favorite(u, index))
            => ConfirmablePending(pending_deletes, u, index, now)]_vars

\* C3 witness: a request found the user's pending entry expired and removed
\* nothing, while the other user has an entry of their own.
C3_Witness ==
    /\ ev.op = "delete" /\ ev.path = "expired" /\ ev.user = "u1"
    /\ "u2" \in DOMAIN pending_deletes
    /\ Len(FavoritesOf(user_favorites, "u1")) > 0

\* C4: a delete request that finds an unexpired pending entry for the same
\* index removes exactly the favorite at that 1-based index, keeps the other
\* favorites of the user in their order, leaves the other users' lists alone,
\* and the user has no pending entry afterwards.
C4_ConfirmedDeleteRemovesExactlyIndex ==
    [][\A u \in Users, index \in Indices :
         (/\ DeleteCallOf(u)
          /\ ConfirmablePending(pending_deletes, u, index, now)
          /\ handle_delete_favorite(u, index))
            => LET old == FavoritesOf(user_favorites, u)
                   new == FavoritesOf(user_favorites', u)
               IN /\ index \in 1..Len(old)
                  /\ Len(new) = Len(old) - 1
                  /\ \A k \in 1..Len(new) :
                        new[k] = IF k < index THEN old[k] ELSE old[k + 1]
                  /\ u \notin DOMAIN pending_deletes'
                  /\ DOMAIN user_favorites' = DOMAIN user_favorites
                  /\ \A v \in DOMAIN user_favorites \ {u} :
                        user_favorites'[v] = user_favorites[v]
                  /\ ev'.reply = "deleted"]_vars

\* C4 witness: the first of two favorites was removed on confirmation and the
\* second took its place.
C4_Witness ==
    /\ ev.op = "delete" /\ ev.path = "confirmed" /\ ev.user = "u1"
    /\ Len(FavoritesOf(user_favorites, "u1")) = 1
    /\ "u1" \in DOMAIN last_sentences
    /\ user_favorites["u1"][1] = last_sentences["u1"].sentence
    /\ "u1" \notin DOMAIN pending_deletes

\* C5: a delete request for a valid index j that finds an unexpired pending
\* entry for another index removes nothing and makes the entry (j, now); a
\* request for j that follows it within the timeout removes the favorite at
\* index j and no other.
C5_DifferentIndexReplacesPending ==
    [][\A u \in Users, j \in Indices :
           /\ ( /\ DeleteCallOf(u)
                /\ u \in DOMAIN pending_deletes
                /\ pending_deletes[u].index # j
                /\ now - pending_deletes[u].timestamp <= DELETE_CONFIRM_TIMEOUT
                /\ j \in 1..Len(FavoritesOf(user_favorites, u))
                /\ handle_delete_favorite(u, j) )
              => /\ user_favorites' = user_favorites
                 /\ pending_deletes' =
                       Put(pending_deletes, u, [index |-> j, timestamp |-> now])
                 /\ ev'.reply = "confirm"
           /\ ( /\ DeleteCallOf(u)
                /\ ev.op = "delete" /\ ev.path = "replaced" /\ ev.user = u
                /\ u \in DOMAIN pending_deletes
                /\ pending_deletes[u].index = j
                /\ now - pending_deletes[u].timestamp <= DELETE_CONFIRM_TIMEOUT
                /\ handle_delete_favorite(u, j) )
              => /\ ev'.reply = "deleted"
                 /\ user_favorites'[u] = Pop(user_favorites[u], j - 1)]_vars

\* C5 witness: request for index 1, then for index 2 (entry replaced), then
\* for index 2 again: the second favorite is gone, the first is still there.
C5_Witness ==
    /\ ev.op = "delete" /\ ev.path = "confirmed" /\ ev.after_replace
    /\ ev.user = "u1"
    /\ Len(FavoritesOf(user_favorites, "u1")) = 1
    /\ "u1" \in DOMAIN last_sentences
    /\ user_favorites["u1"][1] # last_sentences["u1"].sentence

\* C6: a delete request with an index outside 1..len(favorites) sends an
\* error and changes neither user_favorites nor pending_deletes.
C6_InvalidIndexChangesNothing ==
    [][\A u \in Users, index \in Indices :
         (/\ DeleteCallOf(u)
          /\ index \notin 1..Len(FavoritesOf(user_favorites, u))
          /\ handle_delete_favorite(u, index))
            => /\ ev'.reply \in {"invalid_index", "no_favorites"}
               /\ user_favorites' = user_favorites
               /\ pending_deletes' = pending_deletes]_vars

\* C6 witness: an index past the end was rejected while the user's expired
\* pending entry stayed in place.
C6_Witness ==
    /\ ev.op = "delete" /\ ev.path = "invalid_index" /\ ev.user = "u1"
    /\ "u1" \in DOMAIN pending_deletes
    /\ now - pending_deletes["u1"].timestamp > DELETE_CONFIRM_TIMEOUT

(***************************************************************************)
(* Properties of handle_add_favorite of __init__.py (Spec)                 *)
(***************************************************************************)
\* no list holds two records with the same id
NoDuplicateIds ==
    \A u \in DOMAIN user_favorites :
       \A i, k \in 1..Len(user_favorites[u]) :
          user_favorites[u][i].id = user_favorites[u][k].id => i = k

\* a record with this id is in the list
HasId(list, id) == \E i \in 1..Len(list) : list[i].id = id

\* the last_sentences entry of u exists and is within the favorite timeout
FreshSlot(ls, u, t) ==
    u \in DOMAIN ls /\ t - ls[u].timestamp <= favorite_timeout

\* C8 as stated: once a last-fetched sentence was added, no later call with
\* the same last-fetched sentence adds it again or changes the list.
C8_AddSucceedsOncePerSlot ==
    [][\A u \in Users :
         (AddCallOf(u) /\ u \in slot_added /\ handle_add_favorite(u))
            => /\ ev'.reply # "added"
               /\ user_favorites' = user_favorites]_vars

\* C8 amended: the sentence is appended only when no record with its id is
\* in the list; a call made while such a record is in the list leaves the
\* list unchanged, with AlreadyFavorited when the slot is within the timeout
\* and NoRecentSentence after it; no list ever holds an id twice.
C8_NoSecondRecordOfAnId ==
    /\ []NoDuplicateIds
    /\ [][\A u \in Users :
            (AddCallOf(u) /\ handle_add_favorite(u)) =>
              LET old == FavoritesOf(user_favorites, u)
                  new == FavoritesOf(user_favorites', u)
              IN /\ ( /\ u \in DOMAIN last_sentences
                      /\ HasId(old, last_sentences[u].sentence.id) )
                    => /\ new = old
                       /\ ev'.reply = IF FreshSlot(last_sentences, u, now)
                                      THEN "already" ELSE "timeout"
                 /\ ev'.reply = "added"
                    => /\ \A i \in 1..Len(old) :
                             old[i].id # last_sentences[u].sentence.id
                       /\ new = Append(old, last_sentences[u].sentence)
                 /\ ev'.reply # "added" => new = old]_vars

\* C8 witness: the second call for a sentence that was just added was
\* answered AlreadyFavorited.
C8_Witness ==
    /\ ev.op = "add" /\ ev.reply = "already" /\ ev.user = "u1"
    /\ "u1" \in slot_added
    /\ HasId(user_favorites["u1"], last_sentences["u1"].sentence.id)

\* C12: a successful add and a confirmed delete have written the whole
\* favorites dict to disk when they report success: loading the live file
\* then yields the dict in memory, the same records per user in the same
\* order.
C12_SuccessMeansOnDisk ==
    [][(/\ ev'.op \in {"add", "delete"}
        /\ ev'.reply \in {"added", "deleted"}
        /\ user_favorites' # user_favorites)
          => /\ load_favorites(disk').from = "live"
             /\ load_favorites(disk').favs = user_favorites'
             /\ load_favorites(disk').disk = disk']_vars

\* C12 witness: a confirmed delete left one of two favorites, and the live
\* file holds exactly the dict in memory, the other user's list included.
C12_Witness ==
    /\ ev.op = "delete" /\ ev.reply = "deleted" /\ ev.user = "u1"
    /\ Len(FavoritesOf(user_favorites, "u1")) = 1
    /\ FavoritesOf(user_favorites, "u2") # <<>>
    /\ Readable(disk.live)
    /\ disk.live.data = user_favorites
    /\ ~Exists(disk.tmp) /\ ~Exists(disk.bak)

\* handle_add_favorite of __init__.py adds only from a slot that exists and
\* is within the favorite timeout, and answers NoRecentSentence otherwise.
Legacy_AddNeedsFreshSlot ==
    [][\A u \in Users :
         (AddCallOf(u) /\ handle_add_favorite(u)) =>
           /\ ~FreshSlot(last_sentences, u, now)
              => /\ ev'.reply \in {"no_sentence", "timeout"}
                 /\ user_favorites' = user_favorites
           /\ ev'.reply = "added" => FreshSlot(last_sentences, u, now)]_vars

\* handle_add_favorite of __init__.py keeps every list within the quota and
\* answers QuotaExceeded on a full list.
Legacy_QuotaKept ==
    /\ [](\A u \in DOMAIN user_favorites :
             Len(user_favorites[u]) <= max_favorites_per_user)
    /\ [][\A u \in Users :
            (/\ AddCallOf(u)
             /\ Len(FavoritesOf(user_favorites, u)) >= max_favorites_per_user
             /\ FreshSlot(last_sentences, u, now)
             /\ ~HasId(FavoritesOf(user_favorites, u),
                       last_sentences[u].sentence.id)
             /\ handle_add_favorite(u))
               => /\ ev'.reply = "quota"
                  /\ user_favorites' = user_favorites]_vars

(***************************************************************************)
(* SpecList: the list command of __init__.py next to fetch and add         *)
(***************************************************************************)
\* handle_list_favorites(user_id, page)
handle_list_favorites(u, given, page) ==
    /\ save_pc = "idle"
    /\ LET r == ListOutcome(user_favorites, u, given, page) IN
         /\ listing' = r
         /\ ev' = Event("list", u, r.reply, r.reply)
    /\ UNCHANGED <<now, legacy_vars, slot_added, mgr_vars, cache_vars, bg_vars>>

NextList ==
    \/ \E u \in Requesters, s \in Sentences : handle_hitokoto(u, s)
    \/ \E u \in Users : handle_add_favorite(u)
    \/ \E u \in Users, given \in BOOLEAN, page \in PageArgs :
          handle_list_favorites(u, given, page)

SpecList == Init /\ [][NextList]_vars

\* the records a list command has to show for page of a list of favorites
PageOf(favorites, page) ==
    LET first == (page - 1) * favorites_per_page + 1
        last == IF page * favorites_per_page < Len(favorites)
                THEN page * favorites_per_page ELSE Len(favorites)
    IN [k \in 1..(last - first + 1) |->
           [no |-> first + k - 1, fav |-> favorites[first + k - 1]]]

\* max(1, ceil(count / pageSize))
TotalPages(count) ==
    IF CeilDiv(count, favorites_per_page) > 1
    THEN CeilDiv(count, favorites_per_page) ELSE 1

\* handle_list_favorites of __init__.py on a list that is not empty: a page
\* outside 1..totalPages is answered InvalidPage, a page inside it shows
\* exactly its records.  (On an empty list every page, 1 included, is
\* answered with the no-favorites message.)
Legacy_ListPages ==
    [][\A u \in Users, page \in PageArgs :
         (/\ ev'.op = "list" /\ ev'.user = u
          /\ FavoritesOf(user_favorites, u) # <<>>
          /\ handle_list_favorites(u, TRUE, page))
            => IF page \in 1..TotalPages(Len(user_favorites[u]))
               THEN /\ listing'.reply = "page"
                    /\ listing'.items = PageOf(user_favorites[u], page)
               ELSE listing'.reply = "invalid_page"]_vars

(***************************************************************************)
(* FavoriteManager (models.py) and the commands of handlers/favorites.py   *)
(***************************************************************************)
\* hitokoto_data dicts handed to set_last_hitokoto; the last has no "uuid"
HitokotoData ==
    { [hitokoto |-> 1, uuid |-> "a"], [hitokoto |-> 2, uuid |-> "b"],
      [hitokoto |-> 3] }

\* sessions (nonebot_plugin_uninfo): adapter and user id
Sessions == { [adapter |-> "p1", user |-> "u1"] }

\* index arguments of the delete command (Args["index", int])
MgrIndices == (-1)..(Cardinality(HitokotoData) + 1)

\* composite_id = f"{platform}:{user_id}"
composite_id(platform, user_id) == platform \o ":" \o user_id

\* HitokotoFavorite(content=hitokoto_data["hitokoto"],
\*                  uuid=hitokoto_data.get("uuid", ""), ...) with
\* created_at = datetime.now(); type_name, source and creator are carried
\* along and never read by the manager
HitokotoFavorite(hitokoto_data, t) ==
    [content |-> hitokoto_data.hitokoto,
     uuid |-> IF "uuid" \in DOMAIN hitokoto_data THEN hitokoto_data.uuid ELSE "",
     created_at |-> t]

\* FavoriteManager._save_data with no exception: the file holds
\* {user_id: [fav.to_dict() ...]}; to_dict and from_dict copy field by field
\* (created_at through isoformat / fromisoformat, which round-trips)
mgr_save_data(favs) == Json(favs)

\* FavoriteManager.set_last_hitokoto
set_last_hitokoto(last, platform, user_id, hitokoto_data, t) ==
    Put(last, composite_id(platform, user_id), HitokotoFavorite(hitokoto_data, t))

\* FavoriteManager.add_favorite: the value returned (None as ok = FALSE) and
\* _favorites afterwards
add_favorite(favs, last, platform, user_id) ==
    LET cid == composite_id(platform, user_id) IN
    IF cid \notin DOMAIN last
    THEN [ok |-> FALSE, favs |-> favs, saved |-> FALSE]
    ELSE LET favorite == last[cid]
             favs1 == IF cid \in DOMAIN favs THEN favs ELSE Put(favs, cid, <<>>)
         IN IF \E i \in 1..Len(favs1[cid]) : favs1[cid][i].uuid = favorite.uuid
            THEN [ok |-> FALSE, favs |-> favs1, saved |-> FALSE]
            ELSE [ok |-> TRUE,
                  favs |-> Put(favs1, cid, Append(favs1[cid], favorite)),
                  saved |-> TRUE]

\* FavoriteManager.remove_favorite with its 0-based index: the value returned
\* and _favorites afterwards (favorites.pop(index) on the stored list; for a
\* user without an entry the list is a fresh [] and nothing is popped)
remove_favorite(favs, platform, user_id, index) ==
    LET cid == composite_id(platform, user_id)
        favorites == IF cid \in DOMAIN favs THEN favs[cid] ELSE <<>>
    IN IF 0 <= index /\ index < Len(favorites)
       THEN [ok |-> TRUE, favs |-> Put(favs, cid, Pop(favorites, index))]
       ELSE [ok |-> FALSE, favs |-> favs]

\* FavoriteManager.get_favorites
get_favorites(favs, platform, user_id) ==
    LET cid == composite_id(platform, user_id)
    IN IF cid \in DOMAIN favs THEN favs[cid] ELSE <<>>

\* index = max(1, index) - 1
ToInternalIndex(index) == (IF index > 1 THEN index ELSE 1) - 1

\* the caller of set_last_hitokoto (handlers/basic.py): a sentence was served
\* to the session's user
mgr_serve(session, hitokoto_data) ==
    /\ mgr_last' = set_last_hitokoto(mgr_last, session.adapter, session.user,
                                     hitokoto_data, now)
    /\ ev' = Event("mgr_serve", session.user, "served", "served")
    /\ UNCHANGED <<aux_vars, now, legacy_vars, slot_added, mgr_favorites, mgr_file>>

\* handlers/favorites.py handle_add_favorite; permitted is the value of
\* check_permission(session)
favorites_handle_add_favorite(session, permitted) ==
    /\ IF ~permitted
       THEN /\ ev' = Event("mgr_add", session.user, "", "denied")
            /\ UNCHANGED <<mgr_favorites, mgr_file>>
       ELSE LET r == add_favorite(mgr_favorites, mgr_last, session.adapter,
                                  session.user)
            IN /\ mgr_favorites' = r.favs
               /\ mgr_file' = IF r.saved THEN mgr_save_data(r.favs) ELSE mgr_file
               /\ ev' = IF r.ok
                        THEN Event("mgr_add", session.user, "added", "added")
                        ELSE Event("mgr_add", session.user, "add_failed", "none")
    /\ UNCHANGED <<aux_vars, now, legacy_vars, slot_added, mgr_last>>

\* handlers/favorites.py handle_delete_favorite
favorites_handle_delete_favorite(session, index, permitted) ==
    /\ IF ~permitted
       THEN /\ ev' = Event("mgr_delete", session.user, "", "denied")
            /\ UNCHANGED <<mgr_favorites, mgr_file>>
       ELSE LET r == remove_favorite(mgr_favorites, session.adapter,
                                     session.user, ToInternalIndex(index))
            IN /\ mgr_favorites' = r.favs
               /\ mgr_file' = IF r.ok THEN mgr_save_data(r.favs) ELSE mgr_file
               /\ ev' = IF r.ok
                        THEN Event("mgr_delete", session.user, "deleted", "deleted")
                        ELSE Event("mgr_delete", session.user, "delete_failed",
                                   "not_found")
    /\ UNCHANGED <<aux_vars, now, legacy_vars, slot_added, mgr_last>>

\* handlers/favorites.py handle_favorite_list; given = FALSE is a command
\* without the -p option
favorites_handle_favorite_list(session, given, page, permitted) ==
    /\ IF ~permitted
       THEN /\ ev' = Event("mgr_list", session.user, "", "denied")
            /\ UNCHANGED listing
       ELSE LET r == MgrListOutcome(get_favorites(mgr_favorites, session.adapter,
                                                  session.user), given, page)
            IN /\ listing' = r
               /\ ev' = Event("mgr_list", session.user, r.reply, r.reply)
    /\ UNCHANGED <<now, legacy_vars, slot_added, mgr_vars, cache_vars, bg_vars>>

NextMgr ==
    \/ Tick
    \/ \E session \in Sessions, data \in HitokotoData : mgr_serve(session, data)
    \/ \E session \in Sessions, permitted \in BOOLEAN :
          favorites_handle_add_favorite(session, permitted)
    \/ \E session \in Sessions, index \in MgrIndices, permitted \in BOOLEAN :
          favorites_handle_delete_favorite(session, index, permitted)
    \/ \E session \in Sessions, given \in BOOLEAN, page \in PageArgs,
          permitted \in BOOLEAN :
          favorites_handle_favorite_list(session, given, page, permitted)

SpecMgr == Init /\ [][NextMgr]_vars

\* the stored list of a session's user
MgrFavoritesOf(favs, session) ==
    FavoritesOf(favs, composite_id(session.adapter, session.user))

\* C7: the direct delete command removes exactly the favorite at 1-based
\* position i when 1 <= i <= len(favorites), and removes nothing and reports
\* failure for every other i, i <= 0 included.
C7_DirectDeleteChecksIndex ==
    [][\A session \in Sessions, i \in MgrIndices :
         favorites_handle_delete_favorite(session, i, TRUE) =>
           LET old == MgrFavoritesOf(mgr_favorites, session)
               new == MgrFavoritesOf(mgr_favorites', session)
           IN IF i \in 1..Len(old)
              THEN new = Pop(old, i - 1) /\ ev'.reply = "deleted"
              ELSE new = old /\ ev'.reply = "delete_failed"]_vars

\* C9: add_favorite fails, leaving the list as it is, whenever the
\* last-fetched slot is absent or older than the favorite timeout; it
\* succeeds only from a slot whose age is within the timeout.
C9_AddNeedsFreshSlot ==
    [][\A session \in Sessions :
         favorites_handle_add_favorite(session, TRUE) =>
           LET cid == composite_id(session.adapter, session.user)
               fresh == /\ cid \in DOMAIN mgr_last
                        /\ now - mgr_last[cid].created_at <= favorite_timeout
           IN /\ ~fresh => /\ ev'.reply = "add_failed"
                           /\ MgrFavoritesOf(mgr_favorites', session) =
                                 MgrFavoritesOf(mgr_favorites, session)
              /\ ev'.reply = "added" => fresh]_vars

\* C11: a list command with a page outside 1..totalPages, where totalPages
\* = max(1, ceil(count / pageSize)), is answered InvalidPage and the page is
\* never clamped; with a page inside the range it shows exactly the records
\* numbered (page-1)*pageSize+1 .. min(page*pageSize, count).  Stated for the
\* lists that are not empty.
C11_PageOutOfRangeIsAnError ==
    [][\A session \in Sessions, page \in PageArgs :
         (/\ ev'.op = "mgr_list"
          /\ MgrFavoritesOf(mgr_favorites, session) # <<>>
          /\ favorites_handle_favorite_list(session, TRUE, page, TRUE))
            => LET favorites == MgrFavoritesOf(mgr_favorites, session)
               IN IF page \in 1..TotalPages(Len(favorites))
                  THEN listing'.items = PageOf(favorites, page)
                  ELSE listing'.reply = "invalid_page"]_vars

\* C10: every user's favorites list has at most max_favorites_per_user
\* records.
C10_QuotaKept ==
    \A cid \in DOMAIN mgr_favorites :
       Len(mgr_favorites[cid]) <= max_favorites_per_user

(***************************************************************************)
(* SpecCrash: save_favorites one file operation at a time.  The process    *)
(* can be terminated between any two file operations; the module globals   *)
(* are lost and on_startup of the next process calls load_favorites.       *)
(* While a save is in progress no other handler runs (save_favorites never *)
(* suspends).  The clock stands still in this specification.               *)
(***************************************************************************)
\* save_favorites is entered with the dict m in user_favorites
BeginSave(m) ==
    /\ save_pc' = "enter"
    /\ saving' = [saving EXCEPT !.old = load_favorites(disk).favs, !.new = m,
                                !.started = TRUE, !.crashed = FALSE,
                                !.faulted = FALSE, !.live = disk.live]

\* handle_add_favorite up to its call of save_favorites
add_favorite_begin(u) ==
    /\ save_pc = "idle"
    /\ LET r == AddOutcome(user_favorites, last_sentences, u, now) IN
         /\ user_favorites' = r.favs
         /\ ev' = Event("add", u, r.reply, r.reply)
         /\ slot_added' = IF r.reply = "added" THEN slot_added \cup {u}
                          ELSE slot_added
         /\ IF r.saved THEN BeginSave(r.favs) ELSE UNCHANGED <<save_pc, saving>>
    /\ UNCHANGED <<now, last_sentences, pending_deletes, disk, mgr_vars, aux_vars>>

\* auto_save_favorites: the sleep is over, save_favorites is called
auto_save_favorites ==
    /\ save_pc = "idle"
    /\ BeginSave(user_favorites)
    /\ ev' = Event("autosave", "", "", "")
    /\ UNCHANGED <<now, user_favorites, last_sentences, pending_deletes, disk,
                   slot_added, mgr_vars, aux_vars>>

SaveStep(from, to, d) ==
    /\ save_pc = from
    /\ save_pc' = to
    /\ disk' = d
    /\ UNCHANGED <<now, user_favorites, last_sentences, pending_deletes, ev,
                   slot_added, saving, mgr_vars, aux_vars>>

\* with open(temp_file_path, "w", encoding="utf-8") as f:
save_open_temp == SaveStep("enter", "opened", OpenTemp(disk))

\*     json.dump(user_favorites, f, ensure_ascii=False, indent=2)
save_dump_temp == SaveStep("opened", "written", DumpTemp(disk, user_favorites))

\* if os.path.exists(file_path): os.replace(file_path, backup_file_path)
save_backup_live == SaveStep("written", "backed", BackupLive(disk))

\* os.replace(temp_file_path, file_path)
save_promote_temp == SaveStep("backed", "promoted", PromoteTemp(disk))

\* if os.path.exists(backup_file_path): os.remove(backup_file_path)
save_delete_backup == SaveStep("promoted", "idle", DeleteBackup(disk))

\* the process is terminated; the files stay as they are
terminate ==
    /\ save_pc # "down"
    /\ save_pc' = "down"
    /\ user_favorites' = EmptyDict
    /\ last_sentences' = EmptyDict
    /\ pending_deletes' = EmptyDict
    /\ slot_added' = {}
    /\ saving' = [saving EXCEPT !.crashed = saving.started]
    /\ ev' = Event("terminate", "", "", save_pc)
    /\ UNCHANGED <<now, disk, mgr_vars, aux_vars>>

\* while no process runs, the live file is damaged from outside
disk_fault ==
    /\ save_pc = "down"
    /\ Readable(disk.live)
    /\ disk' = [disk EXCEPT !.live = Partial]
    /\ saving' = [saving EXCEPT !.faulted = TRUE]
    /\ UNCHANGED <<now, user_favorites, last_sentences, pending_deletes, ev,
                   slot_added, save_pc, mgr_vars, aux_vars>>

\* on_startup of the next process: load_favorites
on_startup ==
    /\ save_pc = "down"
    /\ LET r == load_favorites(disk) IN
         /\ user_favorites' = r.favs
         /\ disk' = r.disk
         /\ ev' = Event("load", "", "", r.from)
    /\ save_pc' = "idle"
    /\ UNCHANGED <<now, last_sentences, pending_deletes, slot_added, saving,
                   mgr_vars, aux_vars>>

NextCrash ==
    \/ \E u \in Requesters, s \in Sentences : handle_hitokoto(u, s)
    \/ \E u \in Users : add_favorite_begin(u)
    \/ auto_save_favorites
    \/ save_open_temp
    \/ save_dump_temp
    \/ save_backup_live
    \/ save_promote_temp
    \/ save_delete_backup
    \/ terminate
    \/ disk_fault
    \/ on_startup

SpecCrash == Init /\ [][NextCrash]_vars

\* C1: when the process is terminated at any point of a favorites save, the
\* next load returns the dict that was durable before the save began or the
\* dict being saved, never another one.
C1_LoadAfterCrashIsOldOrNew ==
    (ev.op = "load" /\ saving.crashed /\ ~saving.faulted)
       => user_favorites \in {saving.old, saving.new}

\* C2: whenever the live file is missing or unreadable and a readable backup
\* exists, load returns the backup's content and makes the backup the live
\* file; load starts from the empty dict only when neither file is readable.
C2_LoadFallsBackToBackup ==
    [][on_startup =>
         /\ (~Readable(disk.live) /\ Readable(disk.bak))
               => /\ user_favorites' = disk.bak.data
                  /\ disk'.live = disk.bak
                  /\ ~Exists(disk'.bak)
         /\ ev'.path = "empty" => (~Readable(disk.live) /\ ~Readable(disk.bak))]_vars

(***************************************************************************)
(* SpecCache: HitokotoCache with one action per method call.  The methods  *)
(* are synchronous, so each call is one step.                              *)
(***************************************************************************)
\* what the other variables do while the cache is at work
cache_frame == <<legacy_vars, ev, slot_added, mgr_vars, listing, bg_vars>>

\* time passes between two cache calls
cache_tick ==
    /\ \E d \in CacheDeltas :
          /\ now + d <= cache_ttl
          /\ now' = now + d
    /\ UNCHANGED <<cache_frame, cache_vars>>

\* cache.add(sentence, sentence_type)
cache_add_sentence(sentence, sentence_type) ==
    /\ cache_pc = "up"
    /\ LET r == cache_add(type_cache, recently_used, max_size, sentence,
                          sentence_type, now) IN
         /\ type_cache' = r.type_cache
         /\ recently_used' = r.recently_used
    /\ cache_ret' = [op |-> "add", type_key |-> AddTypeKey(sentence, sentence_type),
                     id |-> sentence.id, reset |-> FALSE, removed |-> 0]
    /\ surfaced' = NoSurfaced
    /\ UNCHANGED <<now, cache_frame, max_size, cache_file, stats>>

\* HitokotoCache.get_random on a bucket with valid entries: every pair of a
\* sentence random.choice can return and the recently_used set left behind
GetRandomOutcomes(cache, used, capacity, t) ==
    LET valid == ValidIds(cache, t)
        unused == UnusedIds(valid, used)
        pool == IF unused = {} THEN valid ELSE unused
        base == IF unused = {} THEN {} ELSE used
    IN UNION { { [id |-> chosen, used |-> kept, reset |-> unused = {}] :
                   kept \in TrimChoices(base \cup {chosen}, capacity) } :
               chosen \in pool }

\* the recently_used set of a bucket (created empty by get_random when the
\* bucket has none)
UsedOf(ru, type_key) == IF type_key \in DOMAIN ru THEN ru[type_key] ELSE {}

\* cache.get_random(sentence_type): type_cache stays, recently_used and the
\* value returned (id 0 is None), with reset telling whether the call logged
\* that it reset the recently used record; removed is for cleanup
GetRandomStep(sentence_type) ==
    LET type_key == GetTypeKey(sentence_type) IN
    /\ cache_pc = "up"
    /\ IF type_key \notin DOMAIN type_cache
          \/ ValidIds(type_cache[type_key], now) = {}
       THEN /\ cache_ret' = [op |-> "get_random", type_key |-> type_key, id |-> 0,
                             reset |-> FALSE, removed |-> 0]
            /\ stats' = [stats EXCEPT !.misses = CountUp(@)]
            /\ UNCHANGED recently_used
       ELSE \E r \in GetRandomOutcomes(type_cache[type_key],
                                       UsedOf(recently_used, type_key),
                                       max_size, now) :
               /\ cache_ret' = [op |-> "get_random", type_key |-> type_key,
                                id |-> r.id, reset |-> r.reset,
                                removed |-> 0]
               /\ recently_used' = Put(recently_used, type_key, r.used)
               /\ stats' = [stats EXCEPT !.hits = CountUp(@)]
    /\ UNCHANGED <<now, cache_frame, max_size, type_cache, cache_file>>

cache_get_random(sentence_type) ==
    /\ GetRandomStep(sentence_type)
    /\ UNCHANGED surfaced

\* cache.cleanup(), called by _cleanup_loop
cache_cleanup_call ==
    /\ cache_pc = "up"
    /\ LET r == cache_cleanup(type_cache, recently_used, now) IN
         /\ type_cache' = r.type_cache
         /\ recently_used' = r.recently_used
    /\ cache_ret' = [op |-> "cleanup", type_key |-> "", id |-> 0, reset |-> FALSE,
                     removed |-> ExpiredCount(type_cache, now)]
    /\ surfaced' = NoSurfaced
    /\ UNCHANGED <<now, cache_frame, max_size, cache_file, stats>>

NextCache ==
    \/ cache_tick
    \/ \E sentence \in CacheSentences, sentence_type \in TypeArgs :
          cache_add_sentence(sentence, sentence_type)
    \/ \E sentence_type \in TypeArgs : cache_get_random(sentence_type)
    \/ cache_cleanup_call

SpecCache == Init /\ [][NextCache]_vars

(***************************************************************************)
(* SpecRestore: SpecCache plus the restart of the bot.  on_shutdown writes *)
(* the snapshot, the next process builds an empty HitokotoCache with the   *)
(* cache_size configured then, and on_startup loads the snapshot into it.  *)
(***************************************************************************)
\* the cache_size values the bot is started with
RestartSizes == {CacheSize - 1, CacheSize}

\* save_to_file: the buckets in LRU order, for the buckets only their
\* recently_used sets, and the stats
save_to_file_without_stats(tc, ru, st) ==
    [st |-> "json",
     data |-> [type_cache |-> tc,
               recently_used |-> [k \in DOMAIN tc |-> UsedOf(ru, k)],
               stats |-> NoStats]]

save_to_file(tc, ru, st) ==
    [st |-> "json",
     data |-> [type_cache |-> tc,
               recently_used |-> [k \in DOMAIN tc |-> UsedOf(ru, k)],
               stats |-> st]]

\* load_from_file: every bucket of the file becomes an LRUCache whose
\* OrderedDict is the saved one.  Without a file, or when json.load raises,
\* nothing changes.  On a bucket record without "recently_used" the KeyError
\* of line 278 ends the loop after the bucket was stored at line 275: that
\* bucket is restored without its set, the stats are not reached.
load_from_file(file, tc, ru, st) ==
    IF ~Exists(file) \/ file.st = "partial"
    THEN [type_cache |-> tc, recently_used |-> ru, stats |-> st]
    ELSE IF file.st = "malformed" /\ DOMAIN file.data.type_cache # {}
    THEN LET k == CHOOSE x \in DOMAIN file.data.type_cache : TRUE IN
         [type_cache |-> Put(EmptyDict, k, file.data.type_cache[k]),
          recently_used |-> ru, stats |-> st]
    ELSE [type_cache |-> file.data.type_cache,
          recently_used |->
             [k \in DOMAIN ru \cup DOMAIN file.data.recently_used |->
                IF k \in DOMAIN file.data.recently_used
                THEN file.data.recently_used[k] ELSE ru[k]],
          stats |-> file.data.stats]

\* on_shutdown, then the module level HitokotoCache(max_size = size) of the
\* next process, then on_startup
cache_restart(size) ==
    /\ size >= 1
    /\ cache_pc = "up"
    /\ LET file == save_to_file(type_cache, recently_used, stats)
           r == load_from_file(file, EmptyDict, EmptyDict, NoStats)
       IN /\ cache_file' = file
          /\ type_cache' = r.type_cache
          /\ recently_used' = r.recently_used
          /\ stats' = r.stats
    /\ max_size' = size
    /\ cache_ret' = [op |-> "restart", type_key |-> "", id |-> 0, reset |-> FALSE,
                     removed |-> 0]
    /\ surfaced' = NoSurfaced
    /\ UNCHANGED <<now, cache_frame>>

\* the cache calls at one point of time, and the restart
NextRestore ==
    \/ \E sentence \in CacheSentences, sentence_type \in TypeArgs :
          cache_add_sentence(sentence, sentence_type)
    \/ \E sentence_type \in TypeArgs : cache_get_random(sentence_type)
    \/ cache_cleanup_call
    \/ \E size \in RestartSizes : cache_restart(size)

SpecRestore == Init /\ [][NextRestore]_vars

\* C13: after any sequence of put, get_random, cleanup, snapshot and restore,
\* also the restore of a snapshot written under another capacity, every
\* category bucket holds at most max_size entries.
C13_BucketWithinCapacity ==
    \A k \in DOMAIN type_cache : Len(type_cache[k]) <= max_size

\* the entries of a bucket, oldest insert-or-refresh first (empty when the
\* category has no bucket)
BucketOf(tc, type_key) == IF type_key \in DOMAIN tc THEN tc[type_key] ELSE <<>>

\* the ids a bucket holds
IdsOf(cache) == {cache[i].id : i \in 1..Len(cache)}

\* the bucket without the entry of this id, order kept
Without(cache, id) == SelectSeq(cache, LAMBDA item : item.id # id)

\* what C14 asks of one add(sentence, sentence_type) call
LruPutContract(sentence, sentence_type) ==
    LET type_key == AddTypeKey(sentence, sentence_type)
        old == BucketOf(type_cache, type_key)
        new == BucketOf(type_cache', type_key)
        item == CacheItem(sentence.id, now)
    IN IF sentence.id \in IdsOf(old)
       THEN /\ IdsOf(new) = IdsOf(old)
            /\ new = Append(Without(old, sentence.id), item)
       ELSE IF Len(old) + 1 > max_size
       THEN /\ IdsOf(new) = (IdsOf(old) \ {Head(old).id}) \cup {sentence.id}
            /\ \A i \in 1..Len(old) : Head(old).timestamp <= old[i].timestamp
            /\ new = Append(Tail(old), item)
       ELSE new = Append(old, item)

\* C14: a put that makes a bucket exceed capacity evicts the one entry whose
\* last insert-or-refresh is the oldest; a put of an id already present
\* moves the entry to the most recently used position with a new timestamp
\* and evicts nothing; get_random never changes the eviction order.
C14_LruEviction ==
    [][/\ \A sentence \in CacheSentences, sentence_type \in TypeArgs :
            (/\ cache_ret'.op = "add"
             /\ cache_ret'.id = sentence.id
             /\ cache_add_sentence(sentence, sentence_type))
               => LruPutContract(sentence, sentence_type)
       /\ cache_ret'.op = "get_random" => type_cache' = type_cache]_vars

\* C14 holds for the puts into buckets that are within capacity
Cache_LruEvictionWithinCapacity ==
    [][C13_BucketWithinCapacity =>
         /\ \A sentence \in CacheSentences, sentence_type \in TypeArgs :
              (/\ cache_ret'.op = "add"
               /\ cache_ret'.id = sentence.id
               /\ cache_add_sentence(sentence, sentence_type))
                 => LruPutContract(sentence, sentence_type)
         /\ cache_ret'.op = "get_random" => type_cache' = type_cache]_vars

\* the step is a call of get_random with this argument
GetRandomCallOf(sentence_type) ==
    /\ cache_ret'.op = "get_random"
    /\ cache_ret'.type_key = GetTypeKey(sentence_type)
    /\ cache_get_random(sentence_type)

\* C15: get_random never returns a sentence whose entry has age >= ttl at
\* the time of the call, and when the bucket asked for does not exist or
\* holds expired entries only it returns None, whether or not cleanup ran.
C15_NeverReturnsExpired ==
    [][\A sentence_type \in TypeArgs :
         GetRandomCallOf(sentence_type)
           => LET bucket == BucketOf(type_cache, GetTypeKey(sentence_type)) IN
              /\ cache_ret'.id # 0
                   => \E i \in 1..Len(bucket) :
                         /\ bucket[i].id = cache_ret'.id
                         /\ now - bucket[i].timestamp < cache_ttl
              /\ (\A i \in 1..Len(bucket) :
                     now - bucket[i].timestamp >= cache_ttl)
                   => cache_ret'.id = 0]_vars

\* get_random answered None on a bucket that still holds its expired entries
C15_Witness ==
    /\ cache_ret.op = "get_random" /\ cache_ret.type_key = "a"
    /\ cache_ret.id = 0
    /\ Len(BucketOf(type_cache, "a")) = CacheSize
    /\ \A i \in 1..Len(type_cache["a"]) :
          now - type_cache["a"][i].timestamp >= cache_ttl

\* C16: get_random returns a sentence whose id is in the recently_used set
\* of the bucket only when every entry that is not expired is in that set,
\* and then the set is cleared before the chosen id is recorded; otherwise
\* the id returned was not in the set before the call.
C16_UnusedFirst ==
    [][\A sentence_type \in TypeArgs :
         (GetRandomCallOf(sentence_type) /\ cache_ret'.id # 0)
           => LET type_key == GetTypeKey(sentence_type)
                  bucket == BucketOf(type_cache, type_key)
                  before == UsedOf(recently_used, type_key)
                  fresh == {bucket[i].id :
                              i \in {k \in 1..Len(bucket) :
                                       now - bucket[k].timestamp < cache_ttl}}
              IN IF fresh \subseteq before
                 THEN recently_used'[type_key] = {cache_ret'.id}
                 ELSE cache_ret'.id \notin before]_vars

\* a full bucket of valid entries, all of them surfaced: the call logged the
\* reset and left the id it returned as the only member
C16_Witness ==
    /\ cache_ret.op = "get_random" /\ cache_ret.type_key = "a"
    /\ cache_ret.id # 0 /\ cache_ret.reset
    /\ recently_used["a"] = {cache_ret.id}
    /\ Len(BucketOf(type_cache, "a")) = CacheSize
    /\ \A i \in 1..Len(type_cache["a"]) :
          now - type_cache["a"][i].timestamp < cache_ttl

(***************************************************************************)
(* SpecSurface: get_random calls on a bucket filled to capacity with       *)
(* entries that do not expire, and no put in between.  The capacities are  *)
(* the smallest cache_size the configuration accepts and the smallest one  *)
(* at which the recently_used trim drops a member.                         *)
(***************************************************************************)
\* config.py: cache_size below this is rejected when the cache is enabled
MinCacheSize == 10

SurfaceSizes == {MinCacheSize, RecentKeep + 1}

\* max_size add calls of distinct sentences of category a at time 0
FullBucket(capacity) == [i \in 1..capacity |-> CacheItem(i, 0)]

InitSurface ==
    /\ now = 0
    /\ InitFavorites
    /\ max_size \in SurfaceSizes
    /\ type_cache = Put(EmptyDict, "a", FullBucket(max_size))
    /\ recently_used = Put(EmptyDict, "a", {})
    /\ cache_file = CacheAbsent
    /\ cache_ret = NoCall
    /\ surfaced = NoSurfaced
    /\ stats = NoStats
    /\ InitBackground

\* surfaced after one more get_random call: the hits counted up to
\* max_size + 1, whether a call logged the reset, whether a call dropped
\* members of the set without a reset
CountSurfaced(sf, ret, before, after, capacity) ==
    IF ret.id = 0 THEN sf
    ELSE [n |-> IF sf.n > capacity THEN sf.n ELSE sf.n + 1,
          cleared |-> sf.cleared \/ ret.reset,
          trimmed |-> sf.trimmed
                        \/ (~ret.reset /\ ~(before \cup {ret.id} \subseteq after))]

surface_get_random(sentence_type) ==
    /\ GetRandomStep(sentence_type)
    /\ LET type_key == GetTypeKey(sentence_type) IN
         surfaced' = CountSurfaced(surfaced, cache_ret',
                                   UsedOf(recently_used, type_key),
                                   UsedOf(recently_used', type_key), max_size)

NextSurface == \E sentence_type \in TypeArgs : surface_get_random(sentence_type)

SpecSurface == InitSurface /\ [][NextSurface]_vars

\* C17: after max_size successful get_random calls on a bucket filled to
\* capacity with entries that are not expired, and no put in between, the
\* recently_used set has been cleared at least once.
C17_ClearedWithinCapacityCalls ==
    surfaced.n >= max_size => surfaced.cleared

\* with more than RecentKeep valid entries the set is never cleared: some
\* valid id is always outside of it
Cache_NeverClearedAboveKeep ==
    max_size > RecentKeep => ~surfaced.cleared

\* one call later than C17 says, the set was cleared or has lost members
Cache_ResetByNextCall ==
    surfaced.n > max_size => (surfaced.cleared \/ surfaced.trimmed)

\* a bucket of MinCacheSize entries surfaces every entry once before the
\* first reset
Cache_FullRoundBeforeReset ==
    (max_size = MinCacheSize /\ ~surfaced.cleared)
       => /\ ~surfaced.trimmed
          /\ Cardinality(recently_used["a"]) = surfaced.n

\* C18: after every get_random call, for every configured capacity, the
\* recently_used set of the bucket has at most min(max_size // 2, 20)
\* members.
C18_RecentlyUsedBounded ==
    (cache_ret.op = "get_random" /\ cache_ret.id # 0)
       => LET half == max_size \div 2
              bound == IF half < RecentCap THEN half ELSE RecentCap
          IN Cardinality(recently_used[cache_ret.type_key]) <= bound

\* C19: after every successful get_random the id of the sentence returned is
\* a member of the recently_used set of the bucket, also when the call
\* trimmed the set.
C19_ReturnedIdRecorded ==
    (cache_ret.op = "get_random" /\ cache_ret.id # 0)
       => cache_ret.id \in recently_used[cache_ret.type_key]

\* C19 holds as long as no call has dropped members of the set
Cache_ReturnedIdRecordedUntilTrim ==
    (cache_ret.op = "get_random" /\ cache_ret.id # 0 /\ ~surfaced.trimmed)
       => cache_ret.id \in recently_used[cache_ret.type_key]

\* C20: right after cleanup() no bucket holds an entry of age >= ttl, no
\* bucket is empty, no recently_used set is left for a bucket that was
\* removed, and every entry of age < ttl that was there before the call is
\* still there.
C20_CleanupContract ==
    [][(cache_ret'.op = "cleanup" /\ cache_cleanup_call)
         => /\ \A k \in DOMAIN type_cache' :
                 /\ type_cache'[k] # <<>>
                 /\ \A i \in 1..Len(type_cache'[k]) :
                       now - type_cache'[k][i].timestamp < cache_ttl
            /\ \A k \in DOMAIN type_cache \ DOMAIN type_cache' :
                 k \notin DOMAIN recently_used'
            /\ \A k \in DOMAIN type_cache :
                 \A i \in 1..Len(type_cache[k]) :
                    now - type_cache[k][i].timestamp < cache_ttl
                      => /\ k \in DOMAIN type_cache'
                         /\ \E j \in 1..Len(type_cache'[k]) :
                               type_cache'[k][j] = type_cache[k][i]]_vars

\* a cleanup that deleted an expired entry and kept a valid one of the same
\* bucket, whose recently_used set is still there
C20_Witness ==
    /\ cache_ret.op = "cleanup" /\ cache_ret.removed = 1
    /\ Len(BucketOf(type_cache, "a")) = 1
    /\ "a" \in DOMAIN recently_used /\ recently_used["a"] # {}

\* a cleanup that removed a whole bucket and its recently_used set
Cache_CleanupRemovesBucket ==
    /\ cache_ret.op = "cleanup" /\ cache_ret.removed = CacheSize
    /\ type_cache = EmptyDict /\ recently_used = EmptyDict

(***************************************************************************)
(* SpecWarmup: HitokotoCache.warmup.  A warmup() coroutine runs up to its  *)
(* next await of api_client.get_hitokoto; the fetch then returns a         *)
(* sentence or raises (HitokotoAPI gives up after max_retries attempts).   *)
(***************************************************************************)
\* range(min(10, self.max_size))
WarmupFetches == 10

FetchesPerType_always_ten(capacity) == WarmupFetches

FetchesPerType(capacity) ==
    IF WarmupFetches < capacity THEN WarmupFetches ELSE capacity

\* the ids the API answers with while warming up
NumWarmIds == 1

WarmSentences == [id : 1..NumWarmIds, type : {"a"}]

\* the types argument: warmup_types of the configuration
WarmupTypeLists == {<<>>, <<"a">>, <<"a", "b">>, <<"a", "a">>}

\* if self.warmup_running: return
WarmupRejected_never(running) == FALSE

WarmupRejected(running) == running

\* the coroutine is suspended in await api_client.get_hitokoto(type_key)
Fetching(w) == w.pc = "fetch"

\* the category whose fetch the coroutine waits for
CurrentType(w) == w.types[Len(w.issued)]

\* the coroutine leaves the fetch loop of the current entry of the list: it
\* issues the first fetch of the next entry, or reaches finally
NextEntry(w) ==
    IF Len(w.issued) < Len(w.types)
    THEN [w EXCEPT !.issued = Append(w.issued, 1)]
    ELSE [NoWarmup EXCEPT !.pc = "done"]

\* await cache.warmup(api, types)
warmup_call(t, types) ==
    /\ ~Fetching(warm[t])
    /\ IF WarmupRejected(warmup_running)
       THEN /\ warm' = [warm EXCEPT ![t] = [NoWarmup EXCEPT !.pc = "rejected"]]
            /\ UNCHANGED warmup_running
       ELSE LET w == NextEntry([pc |-> "fetch", types |-> types,
                                issued |-> <<>>]) IN
            /\ warm' = [warm EXCEPT ![t] = w]
            /\ warmup_running' = Fetching(w)
    /\ UNCHANGED <<now, legacy_vars, ev, slot_added, mgr_vars, listing,
                   run_vars,
                   cache_vars, cache_pc>>

\* the fetch returned: self.add(sentence, type_key), then the next fetch of
\* the entry, the next entry, or finally
warmup_fetch_returns(t, sentence) ==
    /\ Fetching(warm[t])
    /\ LET w == warm[t]
           i == Len(w.issued)
           r == cache_add(type_cache, recently_used, max_size, sentence,
                          CurrentType(w), now)
           v == IF w.issued[i] < FetchesPerType(max_size)
                THEN [w EXCEPT !.issued[i] = @ + 1]
                ELSE NextEntry(w)
       IN /\ type_cache' = r.type_cache
          /\ recently_used' = r.recently_used
          /\ cache_ret' = [op |-> "add", type_key |-> CurrentType(w),
                           id |-> sentence.id, reset |-> FALSE, removed |-> 0]
          /\ warm' = [warm EXCEPT ![t] = v]
          /\ warmup_running' = Fetching(v)
    /\ surfaced' = NoSurfaced
    /\ UNCHANGED <<now, legacy_vars, ev, slot_added, mgr_vars, listing,
                   run_vars,
                   max_size, cache_file, stats, cache_pc>>

\* the fetch raised: the except branch logs it and the loop goes on with the
\* next entry of the list
warmup_fetch_fails(t) ==
    /\ Fetching(warm[t])
    /\ LET v == NextEntry(warm[t]) IN
         /\ warm' = [warm EXCEPT ![t] = v]
         /\ warmup_running' = Fetching(v)
    /\ UNCHANGED <<now, legacy_vars, ev, slot_added, mgr_vars, listing,
                   run_vars,
                   cache_vars, cache_pc>>

\* a cache of the smallest capacity, and one above WarmupFetches
InitWarmup ==
    /\ now = 0
    /\ InitFavorites
    /\ max_size \in {CacheSize, WarmupFetches + 1}
    /\ type_cache = EmptyDict
    /\ recently_used = EmptyDict
    /\ cache_file = CacheAbsent
    /\ cache_ret = NoCall
    /\ surfaced = NoSurfaced
    /\ stats = NoStats
    /\ InitBackground

WarmupCompletes ==
    \E t \in Warmers :
       \/ \E sentence \in WarmSentences : warmup_fetch_returns(t, sentence)
       \/ warmup_fetch_fails(t)

NextWarmup ==
    \/ \E t \in Warmers, types \in WarmupTypeLists : warmup_call(t, types)
    \/ WarmupCompletes

SpecWarmup == InitWarmup /\ [][NextWarmup]_vars

\* the warmup() coroutines suspended on a fetch
InProgress == {t \in Warmers : Fetching(warm[t])}

\* C21: at most one warmup is in progress at any time; a warmup called while
\* another one is suspended on a fetch returns at once, issues no fetch,
\* inserts nothing and leaves the running flag of the other one set.
C21_OneWarmupAtATime ==
    /\ [](Cardinality(InProgress) <= 1)
    /\ [][\A t \in Warmers, types \in WarmupTypeLists :
            (/\ InProgress \ {t} # {}
             /\ warmup_call(t, types))
               => /\ warm'[t].pc = "rejected"
                  /\ warm'[t].issued = <<>>
                  /\ \A o \in Warmers \ {t} : warm'[o] = warm[o]
                  /\ type_cache' = type_cache
                  /\ warmup_running /\ warmup_running']_vars

\* w2 was turned away while w1 waits for the second fetch of its first entry
C21_Witness ==
    /\ warm["w2"].pc = "rejected"
    /\ Fetching(warm["w1"])
    /\ warm["w1"].issued = <<2>>
    /\ warmup_running

\* HitokotoAPI.get_hitokoto gives up after max_retries attempts of a request
\* with a timeout: a fetch that was issued returns or raises
SpecWarmupFair == SpecWarmup /\ WF_vars(WarmupCompletes)

\* the fetches a running warmup has issued for category c, all entries of
\* its list together
CategoryFetches(w, c) ==
    SumOver([i \in 1..Len(w.issued) |->
               IF w.types[i] = c THEN w.issued[i] ELSE 0],
            1..Len(w.issued))

\* C22 as stated, the part on the number of fetches: every category receives
\* at most min(10, max_size) fetches in one warmup.
C22_FetchesPerCategory ==
    \A t \in Warmers, c \in {"a", "b"} :
       Fetching(warm[t])
         => CategoryFetches(warm[t], c)
              <= (IF max_size < WarmupFetches THEN max_size ELSE WarmupFetches)

\* C22, amended: a failed fetch does not keep the later entries of the list
\* from being attempted, every entry of the list receives at most
\* min(10, max_size) fetches (a category listed twice is warmed twice), and
\* warmup always ends with the running flag cleared.
C22_WarmupGoesOnAndEnds ==
    /\ [](\A t \in Warmers :
            Fetching(warm[t])
              => \A i \in 1..Len(warm[t].issued) :
                    /\ warm[t].issued[i] <= max_size
                    /\ warm[t].issued[i] <= WarmupFetches)
    /\ [][\A t \in Warmers :
            /\ (Fetching(warm[t]) /\ warmup_fetch_fails(t)
                  /\ Len(warm[t].issued) < Len(warm[t].types))
                 => /\ Fetching(warm'[t])
                    /\ warm'[t].issued = Append(warm[t].issued, 1)
            /\ (Fetching(warm[t]) /\ ~Fetching(warm'[t]))
                 => /\ warm'[t].pc = "done"
                    /\ ~warmup_running']_vars
    /\ \A t \in Warmers : Fetching(warm[t]) ~> ~warmup_running

\* the only fetch for "a" failed and the warmup waits for its fetch for "b"
C22_Witness ==
    /\ Fetching(warm["w1"])
    /\ warm["w1"].types = <<"a", "b">>
    /\ warm["w1"].issued = <<1, 1>>
    /\ "a" \notin DOMAIN type_cache
    /\ warmup_running

(***************************************************************************)
(* SpecSnapshot: data/cache.json across the life of the process.           *)
(* save_to_file opens the file for writing, which empties it, and then     *)
(* dumps the JSON text into it; the process can be terminated at any       *)
(* point, and the file can be damaged or removed while no process runs.    *)
(***************************************************************************)
\* the process is gone: its HitokotoCache is gone with it
ProcessEnds ==
    /\ cache_pc' = "down"
    /\ type_cache' = EmptyDict
    /\ recently_used' = EmptyDict
    /\ stats' = NoStats
    /\ surfaced' = NoSurfaced

\* on_shutdown -> save_to_file: open(file_path, "w")
snapshot_open ==
    /\ cache_pc = "up"
    /\ cache_pc' = "saving"
    /\ cache_file' = [st |-> "partial", data |-> NoSnapshot]
    /\ cache_ret' = [NoCall EXCEPT !.op = "save_to_file"]
    /\ UNCHANGED <<now, legacy_vars, ev, slot_added, mgr_vars, listing,
                   run_vars,
                   warm_vars, max_size, type_cache, recently_used, surfaced,
                   stats>>

\* json.dump(save_data, f) and the end of the with block, then the process
\* exits
snapshot_dump ==
    /\ cache_pc = "saving"
    /\ cache_file' = save_to_file(type_cache, recently_used, stats)
    /\ ProcessEnds
    /\ UNCHANGED <<now, legacy_vars, ev, slot_added, mgr_vars, listing,
                   run_vars,
                   warm_vars, max_size, cache_ret>>

\* the process is terminated from outside, also in the middle of save_to_file
cache_terminate ==
    /\ cache_pc \in {"up", "saving"}
    /\ ProcessEnds
    /\ cache_ret' = [NoCall EXCEPT !.op = "terminate"]
    /\ UNCHANGED <<now, legacy_vars, ev, slot_added, mgr_vars, listing,
                   run_vars,
                   warm_vars, max_size, cache_file>>

\* while no process runs the snapshot is removed, or damaged so that it
\* still parses but a bucket record has lost its "recently_used" key
cache_file_damaged ==
    /\ cache_pc = "down"
    /\ cache_file.st = "json"
    /\ \/ cache_file' = CacheAbsent
       \/ cache_file' = [cache_file EXCEPT !.st = "malformed"]
    /\ UNCHANGED <<now, legacy_vars, ev, slot_added, mgr_vars, listing,
                   run_vars,
                   warm_vars, cache_pc, max_size, type_cache, recently_used,
                   cache_ret, surfaced, stats>>

\* the next process: HitokotoCache(max_size = size) at import, then
\* on_startup -> cache.load_from_file(cache_file)
cache_startup(size) ==
    /\ cache_pc = "down"
    /\ size >= 1
    /\ cache_pc' = "up"
    /\ max_size' = size
    /\ LET r == load_from_file(cache_file, EmptyDict, EmptyDict, NoStats) IN
         /\ type_cache' = r.type_cache
         /\ recently_used' = r.recently_used
         /\ stats' = r.stats
    /\ cache_ret' = [NoCall EXCEPT !.op = "load_from_file"]
    /\ surfaced' = NoSurfaced
    /\ UNCHANGED <<now, legacy_vars, ev, slot_added, mgr_vars, listing,
                   run_vars,
                   warm_vars, cache_file>>

NextSnapshot ==
    \/ \E sentence \in CacheSentences, sentence_type \in TypeArgs :
          cache_add_sentence(sentence, sentence_type)
    \/ \E sentence_type \in TypeArgs : cache_get_random(sentence_type)
    \/ snapshot_open
    \/ snapshot_dump
    \/ cache_terminate
    \/ cache_file_damaged
    \/ \E size \in RestartSizes : cache_startup(size)

SpecSnapshot == Init /\ [][NextSnapshot]_vars

\* C23: load_from_file on a missing or corrupt snapshot never raises and
\* leaves the cache empty: no buckets, no recently_used sets, no partly
\* restored bucket.
C23_CorruptSnapshotGivesEmptyCache ==
    (cache_ret.op = "load_from_file" /\ cache_file.st # "json")
       => (type_cache = EmptyDict /\ recently_used = EmptyDict)

\* C23 holds for the snapshots that are missing or that json.load rejects
Cache_UnreadableSnapshotGivesEmptyCache ==
    (cache_ret.op = "load_from_file" /\ cache_file.st \in {"absent", "partial"})
       => (type_cache = EmptyDict /\ recently_used = EmptyDict)

\* a startup found the file that a terminated save_to_file left behind
Cache_LoadedTruncatedSnapshot ==
    cache_ret.op = "load_from_file" /\ cache_file.st = "partial"

(***************************************************************************)
(* SpecRoundTrip: save_to_file followed by load_from_file, from every      *)
(* state a cache of one category can be in.                                *)
(***************************************************************************)
\* the times at which the entries were put
PutTimes == {0, 1}

\* the contents of a bucket: distinct ids, oldest put first
Buckets(capacity) ==
    {b \in UNION {[1..n -> [id : CacheIds, timestamp : PutTimes]] :
                    n \in 1..capacity} :
       /\ \A i, j \in 1..Len(b) : b[i].id = b[j].id => i = j
       /\ \A i, j \in 1..Len(b) : i < j => b[i].timestamp <= b[j].timestamp}

\* a cache that holds nothing, or the bucket a with its recently_used set
InitRoundTrip ==
    /\ now = 1
    /\ InitFavorites
    /\ InitBackground
    /\ max_size = CacheSize
    /\ \/ type_cache = EmptyDict /\ recently_used = EmptyDict
       \/ \E b \in Buckets(CacheSize), used \in SUBSET CacheIds :
             /\ type_cache = Put(EmptyDict, "a", b)
             /\ recently_used = Put(EmptyDict, "a", used)
    /\ stats \in [hits : 0..StatsCap, misses : 0..StatsCap]
    /\ cache_file = CacheAbsent
    /\ cache_ret = NoCall
    /\ surfaced = NoSurfaced

NextRoundTrip == cache_restart(max_size)

SpecRoundTrip == InitRoundTrip /\ [][NextRoundTrip]_vars

C25_SnapshotNeverLeftPartial ==
    cache_pc = "down" => cache_file.st # "partial"

(***************************************************************************)
(* SpecGate: handle_hitokoto with the cache enabled, from the rate limit   *)
(* check on, one step up to each await that suspends the handler           *)
(* (api.get_hitokoto).  Several calls can be in flight, one per event.     *)
(***************************************************************************)
\* the clock advances to one second before the private cooldown or by the
\* private cooldown; two steps reach the group cooldown or one second less
RateDeltas == {rate_limit_private - 1, rate_limit_private}

MaxRateTime == rate_limit_group

\* the sentence_type a request of SpecGate carries
GateTypes == {"a"}

rate_tick ==
    /\ \E d \in RateDeltas :
          /\ now + d <= MaxRateTime
          /\ now' = now + d
    /\ UNCHANGED <<legacy_vars, ev, slot_added, mgr_vars, aux_vars>>

\* the check handle_hitokoto makes: check_group with rate_limit_group in a
\* group, check_user with rate_limit_private otherwise
RateCheck_private_cooldown_in_groups(windows, event, t) ==
    IF is_group(event)
    THEN check_group(windows, event.group_id, event.user_id,
                     rate_limit_private, t)
    ELSE check_user(windows, event.user_id, rate_limit_private, t)

RateCheck(windows, event, t) ==
    IF is_group(event)
    THEN check_group(windows, event.group_id, event.user_id,
                     rate_limit_group, t)
    ELSE check_user(windows, event.user_id, rate_limit_private, t)

\* if not allowed: send the cooldown message and return
RateDenied_never(allowed) == FALSE

RateDenied(allowed) == ~allowed

\* last_sentences[user_id] = {"sentence": sentence_dict, "timestamp": time.time()}
SetLastSentence_keeping_existing(ls, event, id, t) ==
    IF event.user_id \in DOMAIN ls THEN ls
    ELSE Put(ls, event.user_id, [sentence |-> [id |-> id], timestamp |-> t])

SetLastSentence(ls, event, id, t) ==
    Put(ls, event.user_id, [sentence |-> [id |-> id], timestamp |-> t])

\* handle_hitokoto up to its first suspension: the cooldown message, the
\* sentence served from the cache, or the call of api.get_hitokoto
hitokoto_request(event, sentence_type) ==
    LET r == RateCheck(last_allowed, event, now)
        type_key == GetTypeKey(sentence_type)
        miss == \/ type_key \notin DOMAIN type_cache
                \/ ValidIds(type_cache[type_key], now) = {}
        call == [NoRequest EXCEPT !.fetching = req.fetching, !.event = event]
    IN
    /\ tasks.driver = "running"
    /\ cache_pc = "up"
    /\ save_pc = "idle"
    /\ event \notin DOMAIN req.fetching
    /\ last_allowed' = r.windows
    /\ IF RateDenied(r.allowed)
       THEN /\ req' = [call EXCEPT !.reply = "cooldown",
                                    !.remaining = r.remaining]
            /\ ev' = Event("hitokoto", event.user_id, "cooldown", "cooldown")
            /\ UNCHANGED <<last_sentences, slot_added, recently_used, stats,
                           cache_ret>>
       ELSE IF miss
       THEN /\ req' = [call EXCEPT
                          !.fetching = Put(req.fetching, event,
                                           [sentence_type |-> sentence_type,
                                            admitted |-> now]),
                          !.did = {"lookup", "fetch"}]
            /\ stats' = [stats EXCEPT !.misses = CountUp(@)]
            /\ cache_ret' = [op |-> "get_random", type_key |-> type_key,
                             id |-> 0, reset |-> FALSE, removed |-> 0]
            /\ UNCHANGED <<last_sentences, slot_added, recently_used, ev>>
       ELSE \E o \in GetRandomOutcomes(type_cache[type_key],
                                       UsedOf(recently_used, type_key),
                                       max_size, now) :
               /\ req' = [call EXCEPT !.reply = "served",
                                       !.did = {"lookup", "slot"}]
               /\ recently_used' = Put(recently_used, type_key, o.used)
               /\ stats' = [stats EXCEPT !.hits = CountUp(@)]
               /\ cache_ret' = [op |-> "get_random", type_key |-> type_key,
                                id |-> o.id, reset |-> o.reset,
                                removed |-> 0]
               /\ last_sentences' = SetLastSentence(last_sentences, event,
                                                    o.id, now)
               /\ slot_added' = slot_added \ {event.user_id}
               /\ ev' = Event("hitokoto", event.user_id, "served", "served")
    /\ UNCHANGED <<now, user_favorites, pending_deletes, disk, save_pc,
                   saving, mgr_vars, listing, max_size, type_cache,
                   cache_file, surfaced, warm_vars, cache_pc, ext_vars, tasks>>

\* api.get_hitokoto returned: cache.add(sentence, sentence_type), the
\* last_sentences entry, the message with the sentence
hitokoto_fetch_returns(event, sentence) ==
    /\ event \in DOMAIN req.fetching
    /\ cache_pc = "up"
    /\ save_pc = "idle"
    /\ LET r == cache_add(type_cache, recently_used, max_size, sentence,
                          req.fetching[event].sentence_type, now) IN
         /\ type_cache' = r.type_cache
         /\ recently_used' = r.recently_used
    /\ cache_ret' = [op |-> "add",
                     type_key |-> AddTypeKey(sentence,
                                             req.fetching[event].sentence_type),
                     id |-> sentence.id, reset |-> FALSE, removed |-> 0]
    /\ surfaced' = NoSurfaced
    /\ last_sentences' = SetLastSentence(last_sentences, event, sentence.id, now)
    /\ slot_added' = slot_added \ {event.user_id}
    /\ ev' = Event("hitokoto", event.user_id, "served", "served")
    /\ req' = [NoRequest EXCEPT !.fetching = Del(req.fetching, event),
                                !.event = event, !.reply = "served",
                                !.did = {"put", "slot"}]
    /\ UNCHANGED <<now, user_favorites, pending_deletes, disk, save_pc,
                   saving, mgr_vars, listing, max_size, cache_file, stats,
                   warm_vars, cache_pc, ext_vars, last_allowed, tasks>>

\* api.get_hitokoto raised (RequestError after the retries, ResponseError):
\* the except branch sends the failure message
hitokoto_fetch_raises(event) ==
    /\ event \in DOMAIN req.fetching
    /\ req' = [NoRequest EXCEPT !.fetching = Del(req.fetching, event),
                                !.event = event, !.reply = "failed"]
    /\ ev' = Event("hitokoto", event.user_id, "failed", "failed")
    /\ UNCHANGED <<now, legacy_vars, slot_added, mgr_vars, listing,
                   cache_vars, warm_vars, cache_pc, ext_vars, last_allowed, tasks>>

NextGate ==
    \/ rate_tick
    \/ \E event \in Callers, sentence_type \in GateTypes :
          hitokoto_request(event, sentence_type)
    \/ \E event \in Callers, sentence \in WarmSentences :
          hitokoto_fetch_returns(event, sentence)
    \/ \E event \in Callers : hitokoto_fetch_raises(event)

SpecGate == Init /\ [][NextGate]_vars

(***************************************************************************)
(* Properties of the rate limit (SpecGate)                                 *)
(***************************************************************************)
\* the window a request of the event is checked against
WindowOf(event) ==
    IF is_group(event)
    THEN [key |-> GroupKey(event.group_id, event.user_id),
          cooldown |-> rate_limit_group]
    ELSE [key |-> UserKey(event.user_id), cooldown |-> rate_limit_private]

\* C26: RateLimiter.check(k, c) is allowed iff now minus the last-allowed
\* time of k is >= c or k was never allowed; an allowed check sets
\* last-allowed of k to now, a denied check leaves every window unchanged and
\* returns the remaining time; two checks of the same key with no delay give
\* allowed, then denied with remaining c.
C26_RateCheckContract ==
    [][\A event \in Callers, sentence_type \in GateTypes :
          hitokoto_request(event, sentence_type) =>
             LET k == WindowOf(event).key
                 c == WindowOf(event).cooldown
                 due == k \notin DOMAIN last_allowed \/ now - last_allowed[k] >= c
                 allowed == req'.reply # "cooldown"
             IN /\ allowed <=> due
                /\ allowed => last_allowed' = Put(last_allowed, k, now)
                /\ ~allowed => /\ last_allowed' = last_allowed
                               /\ req'.remaining = c - (now - last_allowed[k])
                /\ (k \in DOMAIN last_allowed /\ last_allowed[k] = now)
                      => ~allowed /\ req'.remaining = c]_vars

\* the group window was opened and checked again with no delay, while the
\* private window of the same user was opened at the same time
C26_Witness ==
    LET g == [platform |-> "p1", user_id |-> "u1", group_id |-> "g1"] IN
    /\ req.event = g
    /\ req.reply = "cooldown"
    /\ req.remaining = rate_limit_group
    /\ last_allowed = [k \in {UserKey("u1"), GroupKey("g1", "u1")} |-> now]
    /\ now = rate_limit_private

\* C27: the rate limiter is an admission gate evaluated before any
\* downstream work: a denied request performs no cache lookup, no remote
\* fetch, no cache put and no last-fetched update, and an allowed request
\* consumes the cooldown at admission, also when the fetch that follows
\* fails.
C27_AdmissionGate ==
    /\ [](\A event \in DOMAIN req.fetching :
             /\ WindowOf(event).key \in DOMAIN last_allowed
             /\ last_allowed[WindowOf(event).key] >= req.fetching[event].admitted)
    /\ [][\A event \in Callers, sentence_type \in GateTypes :
             hitokoto_request(event, sentence_type) =>
                LET k == WindowOf(event).key
                    c == WindowOf(event).cooldown
                    due == k \notin DOMAIN last_allowed
                           \/ now - last_allowed[k] >= c
                IN IF due
                   THEN /\ last_allowed' = Put(last_allowed, k, now)
                        /\ "lookup" \in req'.did
                   ELSE /\ req'.reply = "cooldown"
                        /\ req'.did = {}
                        /\ req'.fetching = req.fetching
                        /\ type_cache' = type_cache
                        /\ recently_used' = recently_used
                        /\ stats' = stats
                        /\ cache_ret' = cache_ret
                        /\ last_sentences' = last_sentences]_vars
    /\ [][\A event \in Callers :
             hitokoto_fetch_raises(event) =>
                /\ last_allowed' = last_allowed
                /\ last_allowed[WindowOf(event).key] >= req.fetching[event].admitted
                /\ last_sentences' = last_sentences
                /\ type_cache' = type_cache]_vars

\* a request is denied within the cooldown that an earlier request of the
\* same window consumed, although that request's fetch failed: one lookup
\* missed, nothing was put, no call is waiting
C27_Witness ==
    /\ req.reply = "cooldown"
    /\ req.did = {}
    /\ req.remaining = 1
    /\ ~is_group(req.event)
    /\ req.fetching = EmptyDict
    /\ stats = [hits |-> 0, misses |-> 1]
    /\ type_cache = EmptyDict
    /\ last_sentences = EmptyDict

(***************************************************************************)
(* Identities (SpecGate)                                                   *)
(***************************************************************************)
\* user_id = str(getattr(event, "user_id", "")): the key handle_hitokoto and
\* handle_favorite use for last_sentences, user_favorites, pending_deletes
LegacyKey(event) == event.user_id

\* the last-fetched slot an event's identity works on
SlotOf(ls, event) ==
    IF LegacyKey(event) \in DOMAIN ls THEN ls[LegacyKey(event)]
    ELSE [sentence |-> NoSentence, timestamp |-> 0]

SameIdentity(a, b) == a.platform = b.platform /\ a.user_id = b.user_id

\* C28: favorites, the last-fetched slot and the pending-delete entry are
\* keyed by the (platform, user) pair: a request served to one identity never
\* changes the last-fetched slot of a different identity, the same user id on
\* another platform included.
C28_KeyedByPlatformAndUser ==
    [][\A event \in Callers, sentence \in WarmSentences :
          hitokoto_fetch_returns(event, sentence) =>
             \A other \in Callers :
                ~SameIdentity(event, other)
                   => SlotOf(last_sentences', other) = SlotOf(last_sentences, other)]_vars

(***************************************************************************)
(* SpecShutdown: the two periodic tasks and on_shutdown.  All coroutines   *)
(* run on one event loop: a coroutine gives way to another only at an      *)
(* await that suspends.  save_favorites is taken one file operation at a   *)
(* time (the actions of SpecCrash), and nothing else runs between them.    *)
(* The clock stands still in this specification.                           *)
(***************************************************************************)
\* The coroutine that entered save_favorites is suspended, so that another
\* coroutine can run: save_favorites contains no await that suspends, the
\* only suspension of auto_save_favorites is asyncio.sleep
Suspended_between_replaces(pc) == pc \in {"idle", "backed"}

Suspended(pc) == pc = "idle"

\* a handler runs while the driver runs and the loop is free
HandlerRuns == tasks.driver = "running" /\ Suspended(save_pc)

\* auto_save_favorites: asyncio.sleep(AUTO_SAVE_INTERVAL) is over
autosave_sweep ==
    /\ tasks.autosave = "started"
    /\ tasks.driver \in {"running", "closing"}
    /\ auto_save_favorites

\* _cleanup_loop: asyncio.sleep(1800) is over, self.cleanup() runs.  The
\* task lives as long as the event loop does
cleanup_sweep ==
    /\ tasks.cleanup = "started"
    /\ tasks.driver # "exited"
    /\ Suspended(save_pc)
    /\ cache_cleanup_call

\* on_shutdown up to its first suspension, await api.close()
shutdown_begin ==
    /\ tasks.driver = "running"
    /\ Suspended(save_pc)
    /\ tasks' = [tasks EXCEPT !.driver = "closing"]
    /\ UNCHANGED <<now, legacy_vars, ev, slot_added, mgr_vars, listing,
                   cache_vars, warm_vars, cache_pc, ext_vars, last_allowed, req>>

\* on_shutdown after api.close(): cache.save_to_file, save_favorites,
\* auto_save_task.cancel(), up to await auto_save_task
shutdown_save_and_cancel ==
    /\ tasks.driver = "closing"
    /\ Suspended(save_pc)
    /\ cache_file' = save_to_file(type_cache, recently_used, stats)
    /\ cache_ret' = [NoCall EXCEPT !.op = "save_to_file"]
    /\ disk' = save_favorites(disk, user_favorites)
    /\ saving' = [saving EXCEPT !.old = load_favorites(disk).favs,
                                !.new = user_favorites, !.started = TRUE]
    /\ ev' = Event("shutdown", "", "", save_pc)
    /\ tasks' = [tasks EXCEPT !.driver = "cancelling",
                              !.autosave = "cancelling"]
    /\ UNCHANGED <<now, user_favorites, last_sentences, pending_deletes,
                   save_pc, slot_added, mgr_vars, listing, max_size,
                   type_cache, recently_used, surfaced, stats, warm_vars,
                   cache_pc, ext_vars, last_allowed, req>>

\* CancelledError is raised in auto_save_favorites where it is suspended:
\* the task ends, await auto_save_task returns and on_shutdown completes
shutdown_completes ==
    /\ tasks.driver = "cancelling"
    /\ tasks' = [tasks EXCEPT !.driver = "stopped", !.autosave = "cancelled"]
    /\ save_pc' = "idle"
    /\ ev' = Event("cancelled", "", "", save_pc)
    /\ UNCHANGED <<now, user_favorites, last_sentences, pending_deletes, disk,
                   saving, slot_added, mgr_vars, listing, cache_vars,
                   warm_vars, cache_pc, ext_vars, last_allowed, req>>

\* the event loop is closed: every task that is left is cancelled
\* (_cleanup_loop sets cleanup_running = False)
loop_closes ==
    /\ tasks.driver = "stopped"
    /\ tasks' = [tasks EXCEPT !.driver = "exited", !.cleanup = "cancelled"]
    /\ UNCHANGED <<now, legacy_vars, ev, slot_added, mgr_vars, listing,
                   cache_vars, warm_vars, cache_pc, ext_vars, last_allowed, req>>

NextShutdown ==
    \/ \E u \in Requesters, s \in Sentences : HandlerRuns /\ handle_hitokoto(u, s)
    \/ \E u \in Users : HandlerRuns /\ add_favorite_begin(u)
    \/ autosave_sweep
    \/ save_open_temp
    \/ save_dump_temp
    \/ save_backup_live
    \/ save_promote_temp
    \/ save_delete_backup
    \/ cleanup_sweep
    \/ shutdown_begin
    \/ shutdown_save_and_cancel
    \/ shutdown_completes
    \/ loop_closes

SpecShutdown == Init /\ [][NextShutdown]_vars

\* C29: at shutdown both periodic tasks, the cache-cleanup loop and the
\* favorites autosave loop, are cancelled and have stopped by the time
\* shutdown completes.
C29_BothTasksStoppedAtShutdown ==
    tasks.driver = "stopped"
       => tasks.cleanup = "cancelled" /\ tasks.autosave = "cancelled"

\* no task sweeps once on_shutdown has completed (does not hold: the
\* cleanup loop goes on until the event loop is closed)
Tasks_NoSweepAfterShutdown ==
    [][tasks.driver = "stopped" => ~cleanup_sweep /\ ~autosave_sweep]_vars

\* the autosave loop is stopped when on_shutdown has completed and does not
\* sweep again
Tasks_AutosaveStoppedAtShutdown ==
    /\ [](tasks.driver \in {"stopped", "exited"} => tasks.autosave = "cancelled")
    /\ [][tasks.driver \in {"cancelling", "stopped", "exited"}
             => ~autosave_sweep]_vars

\* C30: cancellation of the autosave task never interrupts a save between
\* its steps: it is requested and takes effect only while the task sleeps
\* between two sweeps, and after the cancellation load recovers from the
\* files the last completely saved favorites map.
C30_CancelOnlyWhileSleeping ==
    /\ [](tasks.autosave = "cancelled"
             => /\ save_pc = "idle"
                /\ load_favorites(disk).favs = saving.new
                /\ load_favorites(disk).favs = user_favorites)
    /\ [][(shutdown_save_and_cancel \/ shutdown_completes)
             => save_pc = "idle" /\ save_pc' = "idle"]_vars

\* the autosave task was cancelled after u1 had added a favorite: the live
\* file holds both users' lists and no temp or backup file is left
C30_Witness ==
    /\ tasks.autosave = "cancelled"
    /\ ev.op = "cancelled"
    /\ "u1" \in DOMAIN user_favorites
    /\ Len(user_favorites["u1"]) = 1
    /\ disk = [EmptyDisk EXCEPT !.live = Json(user_favorites)]

(***************************************************************************)
(* SpecFetch: HitokotoAPI.get_hitokoto(sentence_type), called as           *)
(* handle_hitokoto and warmup call it (use_cache = False), one step per    *)
(* await: the request and the sleep before a retry.                        *)
(***************************************************************************)
\* api.py: self.max_retries, self.retry_delay
max_retries == 3

retry_delay == 1

\* What a request can end in: a sentence; httpx.RequestError (connection
\* errors and timeouts); httpx.HTTPStatusError from raise_for_status; a
\* body that is not JSON; a JSON object without "hitokoto"; an object that
\* HitokotoSentence rejects; JSON that is no container (null, a number,
\* true), on which '"hitokoto" not in data' raises TypeError
Responses ==
    {"sentence", "network_error", "http_status", "bad_json", "missing_field",
     "bad_model", "not_a_container"}

\* the except branch a response ends in
RaisedBy(response) ==
    CASE response = "network_error" -> "httpx.RequestError"
      [] response = "http_status" -> "httpx.HTTPStatusError"
      [] response \in {"bad_json", "missing_field", "bad_model"} -> "ResponseError"
      [] response = "not_a_container" -> "Exception"
      [] OTHER -> ""

\* if retry == self.max_retries - 1
LastRetry_one_more(retry) == retry = max_retries

LastRetry(retry) == retry = max_retries - 1

\* the call after the response to its request: returned, raised, or asleep
\* before the next request
AfterResponse(call, response) ==
    LET raised == RaisedBy(response)
        seen == [call EXCEPT !.got = Append(@, response)]
        done(outcome) == [seen EXCEPT !.pc = "idle", !.outcome = outcome]
    IN CASE raised = "" -> done("sentence")
         [] raised = "ResponseError" -> done("ResponseError")
         [] raised \in {"httpx.RequestError", "httpx.HTTPStatusError"} ->
               IF LastRetry(call.retry) THEN done("RequestError")
               ELSE [seen EXCEPT !.pc = "sleep"]
         [] OTHER ->
               IF LastRetry(call.retry) THEN done("ResponseError")
               ELSE [seen EXCEPT !.pc = "sleep"]

api_frame ==
    <<now, legacy_vars, ev, slot_added, mgr_vars, listing, cache_vars,
      warm_vars, cache_pc, last_allowed, req, tasks, del_calls>>

\* api.get_hitokoto(sentence_type) up to the first request
get_hitokoto_call(sentence_type) ==
    /\ api_call.pc = "idle"
    /\ api_call' = [NoApiCall EXCEPT !.pc = "request",
                                     !.sentence_type = sentence_type]
    /\ UNCHANGED api_frame

\* await self.client.get(...) is over
get_hitokoto_response(response) ==
    /\ api_call.pc = "request"
    /\ api_call' = AfterResponse(api_call, response)
    /\ UNCHANGED api_frame

\* await asyncio.sleep(self.retry_delay) is over: the next turn of the loop
get_hitokoto_retry ==
    /\ api_call.pc = "sleep"
    /\ api_call' = [api_call EXCEPT !.pc = "request", !.retry = @ + 1,
                                    !.waited = @ + retry_delay]
    /\ UNCHANGED api_frame

NextFetch ==
    \/ \E sentence_type \in TypeArgs : get_hitokoto_call(sentence_type)
    \/ \E response \in Responses : get_hitokoto_response(response)
    \/ get_hitokoto_retry

SpecFetch == Init /\ [][NextFetch]_vars

\* responses that are transient failures, and malformed responses
Transient == {"network_error", "http_status"}

Malformed == {"bad_json", "missing_field", "bad_model", "not_a_container"}

\* C31: every remote fetch call terminates after at most max_retries
\* requests: transient failures are retried after a fixed delay until the
\* bound is reached and are then surfaced as an error, while a malformed
\* response is surfaced after the request that produced it, with no further
\* retry.
C31_BoundedRetries ==
    LET n == Len(api_call.got) IN
    /\ n <= max_retries
    /\ api_call.pc = "request" => n < max_retries
    /\ api_call.waited = retry_delay * api_call.retry
    /\ \A i \in 1..n :
          /\ (api_call.got[i] \in Transient /\ i = n /\ api_call.pc = "idle")
                => i = max_retries /\ api_call.outcome = "RequestError"
          /\ api_call.got[i] \in Malformed
                => i = n /\ api_call.pc = "idle"
                   /\ api_call.outcome = "ResponseError"

\* the same with JSON that is no container counted among the failures that
\* are retried: at most max_retries requests, every call ends in a
\* sentence, a RequestError or a ResponseError
Fetch_BoundedRetries ==
    LET n == Len(api_call.got)
        retried == Transient \cup {"not_a_container"} IN
    /\ n <= max_retries
    /\ api_call.pc = "request" => n < max_retries
    /\ api_call.waited = retry_delay * api_call.retry
    /\ api_call.retry = (IF api_call.pc = "request" THEN n ELSE IF n = 0 THEN 0 ELSE n - 1)
    /\ \A i \in 1..n :
          /\ (api_call.got[i] \in retried /\ i = n /\ api_call.pc = "idle")
                => /\ i = max_retries
                   /\ api_call.outcome =
                         (IF api_call.got[i] \in Transient
                          THEN "RequestError" ELSE "ResponseError")
          /\ api_call.got[i] \in Malformed \ retried
                => i = n /\ api_call.pc = "idle"
                   /\ api_call.outcome = "ResponseError"
          /\ api_call.got[i] = "sentence"
                => i = n /\ api_call.pc = "idle" /\ api_call.outcome = "sentence"

\* three requests were sent and the last one failed in the network
Fetch_Witness ==
    /\ api_call.pc = "idle"
    /\ api_call.got = <<"http_status", "not_a_container", "network_error">>
    /\ api_call.outcome = "RequestError"
    /\ api_call.waited = 2 * retry_delay

(***************************************************************************)
(* The last-fetched slot (SpecGate)                                        *)
(***************************************************************************)
\* C32: after every successful serve to a user (cache hit or remote fetch)
\* the user's last-fetched slot holds exactly the sentence that was served
\* together with the serve time, overwriting any previous slot; a request
\* that fails or is rejected leaves the slot unchanged.
C32_SlotHoldsWhatWasServed ==
    /\ [][\A event \in Callers, sentence_type \in GateTypes :
             hitokoto_request(event, sentence_type) =>
                IF req'.reply = "served"
                THEN last_sentences' =
                        Put(last_sentences, event.user_id,
                            [sentence |-> [id |-> cache_ret'.id],
                             timestamp |-> now])
                ELSE last_sentences' = last_sentences]_vars
    /\ [][\A event \in Callers, sentence \in WarmSentences :
             hitokoto_fetch_returns(event, sentence) =>
                last_sentences' =
                   Put(last_sentences, event.user_id,
                       [sentence |-> [id |-> sentence.id], timestamp |-> now])]_vars
    /\ [][\A event \in Callers :
             hitokoto_fetch_raises(event) => last_sentences' = last_sentences]_vars

\* a serve from the cache overwrote, at a later time, the slot that the
\* fetch which filled the cache had written
C32_Witness ==
    /\ req.reply = "served"
    /\ req.did = {"lookup", "slot"}
    /\ now = rate_limit_group
    /\ last_sentences["u1"] = [sentence |-> [id |-> 1], timestamp |-> now]
    /\ type_cache["a"][1].timestamp < now

(***************************************************************************)
(* More properties of the cache (SpecCache)                                *)
(***************************************************************************)
\* C33: add and get_random resolve an unspecified category to the same
\* bucket: a sentence added with no sentence_type is, until its TTL elapses,
\* among the entries that get_random with no sentence_type chooses from.
C33_UnspecifiedCategorySameBucket ==
    [][\A sentence \in CacheSentences :
          cache_add_sentence(sentence, "") =>
             sentence.id \in ValidIds(BucketOf(type_cache', GetTypeKey("")), now)]_vars

\* C34: two consecutive successful get_random calls on the same bucket, with
\* no add, cleanup or expiry between them, never return the same sentence
\* when the bucket holds at least two non-expired entries.
C34_NoImmediateRepeat ==
    [][\A sentence_type \in TypeArgs :
          LET type_key == GetTypeKey(sentence_type)
              valid == ValidIds(BucketOf(type_cache, type_key), now)
          IN (/\ cache_ret.op = "get_random"
              /\ cache_ret.type_key = type_key
              /\ cache_ret.id \in valid
              /\ Cardinality(valid) >= 2
              /\ cache_get_random(sentence_type))
                => cache_ret'.id # cache_ret.id]_vars

\* the same for calls that do not reset the recently used record: a call
\* that finds an unused entry never repeats the sentence returned just before
Cache_NoRepeatWithoutReset ==
    [][\A sentence_type \in TypeArgs :
          LET type_key == GetTypeKey(sentence_type)
              valid == ValidIds(BucketOf(type_cache, type_key), now)
          IN (/\ cache_ret.op = "get_random"
              /\ cache_ret.type_key = type_key
              /\ cache_ret.id \in valid
              /\ cache_get_random(sentence_type)
              /\ ~cache_ret'.reset)
                => cache_ret'.id # cache_ret.id]_vars

(***************************************************************************)
(* The record behind a pending delete (Spec)                               *)
(***************************************************************************)
\* C35: the favorite removed by a confirmed delete is the record that the
\* confirmation prompt showed when the pending entry was made: as long as
\* the user's pending entry stays as it is, no handler call changes the
\* record at the pending index, and the confirmation removes the record at
\* that index.
C35_PromptedRecordIsRemoved ==
    /\ [](\A u \in DOMAIN pending_deletes :
             pending_deletes[u].index \in 1..Len(FavoritesOf(user_favorites, u)))
    /\ [][\A u \in Users :
             (/\ u \in DOMAIN pending_deletes
              /\ u \in DOMAIN pending_deletes'
              /\ pending_deletes'[u] = pending_deletes[u])
                => LET i == pending_deletes[u].index IN
                   /\ i \in 1..Len(FavoritesOf(user_favorites', u))
                   /\ FavoritesOf(user_favorites', u)[i]
                         = FavoritesOf(user_favorites, u)[i]]_vars
    /\ [][\A u \in Users :
             (/\ DeleteCallOf(u)
              /\ ev'.reply = "deleted"
              /\ \E index \in Indices : handle_delete_favorite(u, index))
                => /\ u \in DOMAIN pending_deletes
                   /\ u \notin DOMAIN pending_deletes'
                   /\ user_favorites'[u]
                         = Pop(user_favorites[u], pending_deletes[u].index - 1)]_vars

\* u1 added a favorite while the delete of the first favorite was pending:
\* the pending index still names the record the prompt showed
C35_Witness ==
    /\ ev.op = "add" /\ ev.reply = "added" /\ ev.user = "u1"
    /\ "u1" \in DOMAIN pending_deletes
    /\ pending_deletes["u1"].index = 1
    /\ Len(FavoritesOf(user_favorites, "u1")) = 2
    /\ user_favorites["u1"][2] = last_sentences["u1"].sentence

(***************************************************************************)
(* SpecDelete: handle_delete_favorite calls that run side by side on the   *)
(* one event loop.  A call runs without a break from one await that        *)
(* suspends to the next; the other handlers of Spec run while every delete *)
(* call is suspended or over.                                              *)
(***************************************************************************)
\* The call gives the loop to other coroutines at this position: the sends
\* suspend, await save_favorites() does not (save_favorites has no await)
DeleteSuspended_also_in_save(pc) == pc \in {"idle", "send", "save"}

DeleteSuspended(pc) == pc \in {"idle", "send"}

\* the loop is free for a step of h (or of a handler that is no delete
\* call, h = "")
LoopFreeFor(h) ==
    \A o \in DeleteHandlers \ {h} : DeleteSuspended(del_calls[o].pc)

delete_frame ==
    <<now, last_sentences, slot_added, save_pc, saving, mgr_vars, listing,
      cache_vars, warm_vars, cache_pc, last_allowed, req, tasks, api_call>>

\* handle_delete_favorite(user_id, index) from its start to its first
\* await: a message, or the pop of the confirming branch
delete_begin(h, u, index) ==
    /\ del_calls[h].pc = "idle"
    /\ LoopFreeFor(h)
    /\ LET r == DeleteOutcome(user_favorites, pending_deletes, u, index, now)
           call == [NoDelete EXCEPT !.user = u, !.index = index,
                      !.before = Len(FavoritesOf(user_favorites, u))]
       IN /\ user_favorites' = r.favs
          /\ ev' = Event("delete", u, r.reply, r.path)
          /\ IF r.reply = "deleted"
             THEN /\ del_calls' = [del_calls EXCEPT ![h] =
                                      [call EXCEPT !.pc = "save"]]
                  /\ UNCHANGED pending_deletes
             ELSE /\ del_calls' = [del_calls EXCEPT ![h] =
                                      [call EXCEPT !.pc = "send"]]
                  /\ pending_deletes' = r.pending
    /\ UNCHANGED <<disk, delete_frame>>

\* the confirming branch from await save_favorites() to the send:
\* save_favorites(), del pending_deletes[user_id]
delete_saved(h) ==
    /\ del_calls[h].pc = "save"
    /\ LoopFreeFor(h)
    /\ disk' = save_favorites(disk, user_favorites)
    /\ pending_deletes' = Del(pending_deletes, del_calls[h].user)
    /\ del_calls' = [del_calls EXCEPT ![h].pc = "send"]
    /\ UNCHANGED <<user_favorites, ev, delete_frame>>

\* the message was sent, the call is over
delete_sent(h) ==
    /\ del_calls[h].pc = "send"
    /\ LoopFreeFor(h)
    /\ del_calls' = [del_calls EXCEPT ![h] = NoDelete]
    /\ UNCHANGED <<user_favorites, pending_deletes, disk, ev, delete_frame>>

\* the sentences served in SpecDelete: two, so that a list holds two
\* favorites
DeleteSentences == {s \in Sentences : s.id <= Cardinality(DeleteHandlers)}

NextDelete ==
    \/ \E u \in Requesters, s \in DeleteSentences :
          LoopFreeFor("") /\ handle_hitokoto(u, s)
    \/ \E u \in Requesters : LoopFreeFor("") /\ handle_add_favorite(u)
    \/ \E h \in DeleteHandlers, u \in Requesters, index \in Indices :
          delete_begin(h, u, index)
    \/ \E h \in DeleteHandlers : delete_saved(h)
    \/ \E h \in DeleteHandlers : delete_sent(h)

SpecDelete == Init /\ [][NextDelete]_vars

\* the delete calls of user u that are running
RunningDeletes(u) ==
    {h \in DeleteHandlers : del_calls[h].pc # "idle" /\ del_calls[h].user = u}

\* C36: under every interleaving of the delete calls of one user the check
\* of the pending entry, the pop and the clearing form one uninterrupted
\* run: while a call stands between its pop and its clearing the entry it
\* checked is still in the table and the list is exactly one record shorter
\* than when the call began, and its clearing leaves the user without an
\* entry and the list one record shorter; the table, a dict keyed by
\* user_id, holds entries of users only, one per key
C36_ConfirmationIsNotInterleaved ==
    /\ [](\A h \in DeleteHandlers :
            del_calls[h].pc = "save" =>
              LET u == del_calls[h].user
              IN /\ u \in DOMAIN pending_deletes
                 /\ pending_deletes[u].index = del_calls[h].index
                 /\ Len(FavoritesOf(user_favorites, u)) + 1 = del_calls[h].before)
    /\ [](DOMAIN pending_deletes \subseteq Users)
    /\ [][\A h \in DeleteHandlers :
            (del_calls[h].pc = "save" /\ del_calls'[h].pc = "send") =>
              LET u == del_calls[h].user
              IN /\ u \in DOMAIN pending_deletes
                 /\ u \notin DOMAIN pending_deletes'
                 /\ Len(FavoritesOf(user_favorites', u)) + 1 = del_calls[h].before
                 /\ disk'.live = Json(user_favorites')]_vars

\* two delete calls of one user are in flight: the first confirmed and
\* removed one of two favorites, the second, begun while the first was still
\* sending, found no entry and asked again
C36_Witness ==
    /\ RunningDeletes("u1") = DeleteHandlers
    /\ \E h \in DeleteHandlers :
          /\ del_calls[h].before = 2
          /\ del_calls[h].pc = "send"
          /\ Len(FavoritesOf(user_favorites, "u1")) = 1
    /\ "u1" \in DOMAIN pending_deletes

(***************************************************************************)
(* SpecSaveFail: SpecCrash without damage from outside, and with a file    *)
(* operation of save_favorites that raises.  saving.live is the live file  *)
(* as it was when the save was entered.                                    *)
(***************************************************************************)
\* except Exception: if os.path.exists(backup_file_path):
\*     os.replace(backup_file_path, file_path)
RestoreBackup(d) ==
    IF Exists(d.bak) THEN [d EXCEPT !.live = d.bak, !.bak = Absent] ELSE d

\* the next file operation of the save in progress raises and changes no
\* file; the except branch runs.  When os.makedirs raised, file_path is
\* unbound and the os.replace of the except branch raises in turn; when a
\* later operation raised, the os.replace moves the backup
save_fails ==
    /\ save_pc \in {"enter", "opened", "written", "backed", "promoted"}
    /\ \E makedirs_raised \in {FALSE, save_pc = "enter"} :
          disk' = IF makedirs_raised THEN disk ELSE RestoreBackup(disk)
    /\ save_pc' = "idle"
    /\ ev' = Event("save_failed", "", "", save_pc)
    /\ UNCHANGED <<now, user_favorites, last_sentences, pending_deletes,
                   slot_added, saving, mgr_vars, aux_vars>>

NextSaveFail ==
    \/ \E u \in Requesters, s \in Sentences : handle_hitokoto(u, s)
    \/ \E u \in Users : add_favorite_begin(u)
    \/ auto_save_favorites
    \/ save_open_temp
    \/ save_dump_temp
    \/ save_backup_live
    \/ save_promote_temp
    \/ save_delete_backup
    \/ save_fails
    \/ terminate
    \/ on_startup

SpecSaveFail == Init /\ [][NextSaveFail]_vars

\* C37: when a file operation of a favorites save raises, the live file
\* after the except branch holds what it held when the save was entered or
\* the dict being saved
C37_FailedSaveLeavesOldOrNew ==
    [][save_fails => disk'.live \in {saving.live, Json(saving.new)}]_vars

\* a save that fails after it moved the live file aside gets the file it
\* moved back: the backup the except branch restores is this save's own
SaveFail_OwnBackupRestored ==
    [][(save_fails /\ save_pc = "backed" /\ Exists(saving.live))
          => disk'.live = saving.live]_vars

(***************************************************************************)
(* SpecLru: the calls that change the OrderedDict of a bucket, add,        *)
(* cleanup and the restart with its snapshot and restore, under a clock    *)
(* that never goes back.  get_random iterates lru_cache.cache.items() and  *)
(* never calls LRUCache.get, so it leaves every bucket as it is.           *)
(***************************************************************************)
NextLru ==
    \/ cache_tick
    \/ \E sentence \in CacheSentences, sentence_type \in TypeArgs :
          cache_add_sentence(sentence, sentence_type)
    \/ cache_cleanup_call
    \/ \E size \in RestartSizes : cache_restart(size)

SpecLru == Init /\ [][NextLru]_vars

\* the entries of bucket that popitem(last=False) removed in the step
Evicted(before, after) ==
    {i \in 1..Len(before) :
        \A j \in 1..Len(after) : after[j].id # before[i].id}

\* C38: in every bucket an entry nearer the eviction end never has a newer
\* timestamp than one further from it, and an add that evicts an entry which
\* has not expired leaves no expired entry in that bucket
C38_LruOrderIsTimestampOrder ==
    /\ [](\A k \in DOMAIN type_cache :
            \A i, j \in 1..Len(type_cache[k]) :
               i < j => type_cache[k][i].timestamp <= type_cache[k][j].timestamp)
    /\ [][cache_ret'.op = "add" =>
            \A k \in DOMAIN type_cache :
               \A i \in Evicted(type_cache[k], type_cache'[k]) :
                  NotExpired(type_cache[k][i], now)
                    => \A j \in 1..Len(type_cache'[k]) :
                          NotExpired(type_cache'[k][j], now)]_vars

\* a full bucket whose oldest entry was put again after the others had
\* expired: the entry put again stands last with the newest timestamp, and
\* the next add of a new sentence evicts an expired entry
C38_Witness ==
    /\ cache_ret.op = "add"
    /\ \E k \in DOMAIN type_cache :
          LET bucket == type_cache[k] IN
          /\ Len(bucket) = max_size
          /\ max_size > 1
          /\ bucket[Len(bucket)].timestamp = now
          /\ bucket[Len(bucket)].id = cache_ret.id
          /\ bucket[Len(bucket)].id < bucket[1].id
          /\ ~NotExpired(bucket[1], now)

====
